---- MODULE Spec2Model ----
(***************************************************************************)
(* AskDoc (liliang-cn/askdoc): collections, document upload with detached  *)
(* ingestion, the admin HTTP handlers and the widget chat relay.           *)
(*                                                                         *)
(* Strings the code inspects character by character (file names, file      *)
(* extensions) are sequences of one-character strings.  Fresh uuids are    *)
(* drawn in order from small id sets and never reused.  The rago document  *)
(* store is an external library: a row is (id, metadata map); Get of a     *)
(* missing id is an error (the code's "failed to get document" branch),    *)
(* Delete of a missing id may or may not be an error.  File-system and     *)
(* SQL statements succeed unless an action says otherwise.                 *)
(***************************************************************************)
EXTENDS Integers, Sequences, FiniteSets, TLC

\* ------------------------------------------------------------------ bounds
MaxCollections == 1
MaxUploads == 1
MaxSites == 1
MaxTurns == 2
MaxContent == 1     \* content chunks one upstream generation delivers
MaxRequests == 2    \* chat-stream requests one widget starts
MaxChunks == 2      \* chunks the widget reads from one response
MaxDeficit == 1     \* how far below zero deletions may take a document_count
MaxDocs == 22       \* rows of the document store when a listing is requested
MaxRead == 20       \* characters one read of the response body delivers at most
MaxUpdates == 2     \* update requests in flight at once
MaxEvents == 2      \* events one agent run delivers before its done, error or end
IntBits == 16       \* width of an int in the page arithmetic; stands for Go's 64
MaxPageSize == 100
DefaultPageSize == 20
StreamCap == 4      \* slots of the stream channel, for make(chan StreamChunk, 100): room for
                    \* every chunk of a run but the content chunks of a long answer

VARIABLES
    orchestrator,   \* "nil" | "rag" | "agent": main.go keeps a nil orchestrator when its
                    \* construction failed; rag and agent are the two OrchestratorService builds
    collections,    \* collections table: id -> [name, document_count]
    nextCollection, \* number of collection ids handed out so far
    dirs,           \* storage directories that exist (one per collection id)
    files,          \* stored files: [coll, id, ext]
    uploads,        \* upload requests: slot -> handler position, shared Document, task position
    ragoDocs,       \* rago document store: sequence of [id, meta, origin]
    nUploads,       \* history: successful UploadDocument calls per collection id
    nDeletes,       \* history: rows removed from the store per collection id of their upload
    resp,           \* last HTTP response written by a one-shot handler
    sites,          \* sites table: id -> [name, widget_config]
    nextSite,       \* number of site ids handed out so far
    sessions,       \* sessions table: id -> [site_id]; site_id 0 is NULL
    messages,       \* messages table in insertion order: [session_id, role, content, turn]
    turns,          \* chat requests: slot -> position, locals, response, stream
    cfg,            \* configuration: [apiKey, allowOrigins, baseURL]
    request,        \* the HTTP request passing through the router's handler chain
    served,         \* history: site id -> the first widget-config payload served since
                    \* the site's last update or deletion (<<>>: none)
    configResp,     \* last response of the widget-config endpoint
    widget,         \* the embedded widget in the visitor's browser
    listResp,        \* last response of the document listing endpoint
    parser,         \* the widget's SSE parser reading one response body
    updates         \* UpdateSite / UpdateCollection requests between their read and write

ingestVars == <<collections, nextCollection, dirs, files, uploads, ragoDocs,
                nUploads, nDeletes>>
chatVars == <<sites, nextSite, sessions, messages, turns>>
edgeVars == <<cfg, request, served, configResp, widget>>
auxVars == <<listResp, parser, updates>>
vars == <<orchestrator, ingestVars, resp, chatVars, edgeVars, auxVars>>

\* ------------------------------------------------------------------ values
CollIds == 1..MaxCollections
UploadSlots == 1..MaxUploads
SiteIds == 1..MaxSites
UpdateSlots == 1..MaxUpdates
TurnSlots == 1..MaxTurns

Panic == "panic"

DocumentStatusPending == "pending"
DocumentStatusProcessing == "processing"
DocumentStatusReady == "ready"
DocumentStatusFailed == "failed"

MetadataKeyCollectionID == "collection_id"
MetadataKeyFilename == "filename"
MetadataKeyFileType == "file_type"
MetadataKeyStatus == "status"
MetadataKeyChunkCount == "chunk_count"
MetadataKeyError == "error"

FileTypePDF == <<"p", "d", "f">>
FileTypeMD == <<"m", "d">>
FileTypeTXT == <<"t", "x", "t">>
FileTypeHTML == <<"h", "t", "m", "l">>
FileTypeADOC == <<"a", "d", "o", "c">>

\* The uuid generated for upload slot u, and the id rago gives the row of that upload.
DocID(u) == <<"doc", u>>
RagoID(u) == <<"rago", u>>

\* Metadata form field of an upload: absent, or a JSON object with these keys.
EmptyMeta == [k \in {} |-> ""]
OverridingMeta ==
    [k \in {MetadataKeyCollectionID, MetadataKeyStatus} |->
        IF k = MetadataKeyStatus THEN DocumentStatusReady ELSE MaxCollections + 1]

StatusMeta == [k \in {MetadataKeyStatus} |-> DocumentStatusFailed]

\* The upload requests offered to the handler: file name and metadata field.
UploadRequests ==
    { [filename |-> <<"n", ".", "t", "x", "t">>, metadata |-> EmptyMeta],
      [filename |-> <<"N", ".", "M", "D">>, metadata |-> OverridingMeta],
      [filename |-> <<"n", ".", "t", "x", "t">>, metadata |-> StatusMeta],
      [filename |-> <<"x", ".", "e", "x", "e">>, metadata |-> EmptyMeta],
      [filename |-> <<"R", "M">>, metadata |-> EmptyMeta] }

IngestErrorText == "ingest failed"

\* ------------------------------------------------------------------ strings
UpperCase == <<"A", "B", "C", "D", "E", "F", "G", "H", "I", "J", "K", "L", "M",
               "N", "O", "P", "Q", "R", "S", "T", "U", "V", "W", "X", "Y", "Z">>
LowerCase == <<"a", "b", "c", "d", "e", "f", "g", "h", "i", "j", "k", "l", "m",
               "n", "o", "p", "q", "r", "s", "t", "u", "v", "w", "x", "y", "z">>

ToLowerChar(c) ==
    IF \E i \in 1..Len(UpperCase) : UpperCase[i] = c
    THEN LowerCase[CHOOSE i \in 1..Len(UpperCase) : UpperCase[i] = c]
    ELSE c

ToLower(s) == [i \in 1..Len(s) |-> ToLowerChar(s[i])]

\* filepath.Ext: the suffix beginning at the final dot of the final path element.
Ext(path) ==
    LET dots == { i \in 1..Len(path) :
                    /\ path[i] = "."
                    /\ \A j \in i..Len(path) : path[j] # "/" }
    IN IF dots = {} THEN <<>>
       ELSE LET i == CHOOSE d \in dots : \A e \in dots : e <= d
            IN SubSeq(path, i, Len(path))

DetectFileType(filename) ==
    LET ext == ToLower(Ext(filename))
    IN CASE ext = <<".", "p", "d", "f">> -> FileTypePDF
         [] ext = <<".", "m", "d">> -> FileTypeMD
         [] ext = <<".", "m", "a", "r", "k", "d", "o", "w", "n">> -> FileTypeMD
         [] ext = <<".", "t", "x", "t">> -> FileTypeTXT
         [] ext = <<".", "h", "t", "m", "l">> -> FileTypeHTML
         [] ext = <<".", "h", "t", "m">> -> FileTypeHTML
         [] ext = <<".", "a", "d", "o", "c">> -> FileTypeADOC
         [] ext = <<".", "a", "s", "c", "i", "i", "d", "o", "c">> -> FileTypeADOC
         [] OTHER -> IF Len(ext) = 0 THEN Panic       \* ext[1:] of "" is out of range
                     ELSE SubSeq(ext, 2, Len(ext))

IsSupported(fileType) ==
    fileType \in {FileTypePDF, FileTypeMD, FileTypeTXT, FileTypeHTML, FileTypeADOC}

\* ------------------------------------------------------------------ maps
\* for k, v := range over { base[k] = v }
Merge(base, over) ==
    [k \in (DOMAIN base) \cup (DOMAIN over) |->
        IF k \in DOMAIN over THEN over[k] ELSE base[k]]

\* ------------------------------------------------------------------ collections table
UpdateDocumentCount(table, id, delta) ==
    IF id \in DOMAIN table
    THEN [table EXCEPT ![id].document_count = @ + delta]
    ELSE table          \* the UPDATE matches no row and reports no error

RemoveKey(f, k) == [x \in (DOMAIN f) \ {k} |-> f[x]]

Response(op, status, missing) == [op |-> op, status |-> status, missing |-> missing]

\* ------------------------------------------------------------------ state
NoDocument ==
    [ID |-> <<>>, CollectionID |-> 0, Filename |-> <<>>, FileType |-> <<>>,
     Status |-> "", ChunkCount |-> 0, Error |-> "", Metadata |-> EmptyMeta]

NoBody == [id |-> <<>>, status |-> ""]

IdleUpload ==
    [pc |-> "idle", task |-> "none", coll |-> 0, filename |-> <<>>,
     meta |-> EmptyMeta, document |-> NoDocument, body |-> NoBody,
     ctx |-> "", cancelledAt |-> ""]

NoResponse == Response("none", 0, FALSE)

NoAnswer == <<>>

IdleTurn ==
    [kind |-> "none", pc |-> "idle", site |-> 0, reqSession |-> 0, sessionID |-> 0,
     message |-> "", created |-> 0, outcome |-> "", answer |-> NoAnswer,
     storeErr |-> FALSE, status |-> 0, respSession |-> 0, respAnswer |-> NoAnswer,
     producer |-> "none", ch |-> <<>>, sent |-> <<>>, frames |-> <<>>]

IngestInit ==
    /\ collections = [c \in {} |-> 0]
    /\ nextCollection = 0
    /\ dirs = {}
    /\ files = {}
    /\ uploads = [u \in UploadSlots |-> IdleUpload]
    /\ ragoDocs = <<>>
    /\ nUploads = [c \in CollIds |-> 0]
    /\ nDeletes = [c \in CollIds |-> 0]
    /\ resp = NoResponse

ChatInit ==
    /\ sites = [s \in {} |-> 0]
    /\ nextSite = 0
    /\ sessions = [s \in {} |-> 0]
    /\ messages = <<>>
    /\ turns = [t \in TurnSlots |-> IdleTurn]

\* A configured admin key.
APIKey == <<"k">>

\* config.Load's defaults; main passes the allow-list "*" to SetupRouter.
DefaultConfig ==
    [apiKey |-> <<>>, allowOrigins |-> <<"*">>, baseURL |-> "http://localhost:8080"]

NoRequest ==
    [method |-> "", path |-> "", origin |-> "", xApiKey |-> <<>>, authorization |-> <<>>,
     chain |-> <<>>, ran |-> <<>>, headers |-> {}, status |-> 0, done |-> TRUE]

NoConfigResp == [status |-> 0, payload |-> <<>>, base_url |-> <<>>, repeat |-> FALSE]

\* AskDocWidget after render(): source names the implementation (the served
\* sdk.js or the widget package's widget.ts), value is the input box's text,
\* requests the chat-stream requests started so far.
IdleWidget ==
    [source |-> "sdk.js", value |-> "", isStreaming |-> FALSE,
     inputDisabled |-> FALSE, sendDisabled |-> FALSE, requests |-> <<>>]

NoListing ==
    [collectionID |-> 0, reqPage |-> 0, reqPageSize |-> 0, page |-> 0, page_size |-> 0,
     documents |-> <<>>, total |-> 0, status |-> 0]

\* APIClient.chatStream before its fetch: source names the implementation (sdk.js
\* or the SDK package's index.ts), body the response's characters, pos how many of
\* them were read, cut whether a read ended inside a line.
IdleParser ==
    [pc |-> "idle", source |-> "", body |-> <<>>, pos |-> 0, buffer |-> <<>>,
     delivered |-> <<>>, cut |-> FALSE]

\* An UpdateCollection or UpdateSite request between its repository Get and its
\* repository Update: the row it read (a one-element sequence) and its body.
IdleUpdate ==
    [pc |-> "idle", id |-> 0, name |-> "", req |-> <<>>, collection |-> <<>>, site |-> <<>>]

NoUpdates == [w \in UpdateSlots |-> IdleUpdate]

AuxInit ==
    /\ listResp = NoListing
    /\ parser = IdleParser
    /\ updates = NoUpdates

EdgeInit ==
    /\ AuxInit
    /\ cfg = DefaultConfig
    /\ request = NoRequest
    /\ served = [s \in SiteIds |-> <<>>]
    /\ configResp = NoConfigResp
    /\ widget = IdleWidget

\* The document side is the same in both builds; it is explored with the rag one.
InitIngest ==
    /\ orchestrator \in {"nil", "rag"}
    /\ IngestInit
    /\ ChatInit
    /\ EdgeInit

\* ------------------------------------------------------------------ rago document store
HasDoc(store, id) == \E i \in 1..Len(store) : store[i].id = id

DocIndex(store, id) == CHOOSE i \in 1..Len(store) : store[i].id = id

StoreDelete(store, id) == SelectSeq(store, LAMBDA row : row.id # id)

\* OrchestratorService.UpdateDocumentMetadata: Get, merge, write back; a failed Get
\* returns an error that ingestDocument drops.
UpdateDocumentMetadata(store, id, metadata) ==
    IF HasDoc(store, id)
    THEN [store EXCEPT ![DocIndex(store, id)].meta = Merge(@, metadata)]
    ELSE store

MetaString(meta, key) == IF key \in DOMAIN meta THEN meta[key] ELSE ""

ragoDocToAskDoc(row) ==
    [ID |-> row.id,
     CollectionID |-> IF MetadataKeyCollectionID \in DOMAIN row.meta
                      THEN row.meta[MetadataKeyCollectionID] ELSE 0,
     Filename |-> IF MetadataKeyFilename \in DOMAIN row.meta
                  THEN row.meta[MetadataKeyFilename] ELSE <<>>,
     FileType |-> IF MetadataKeyFileType \in DOMAIN row.meta
                  THEN row.meta[MetadataKeyFileType] ELSE <<>>,
     Status |-> IF MetaString(row.meta, MetadataKeyStatus) = ""
                THEN DocumentStatusReady
                ELSE MetaString(row.meta, MetadataKeyStatus),
     ChunkCount |-> IF MetadataKeyChunkCount \in DOMAIN row.meta
                    THEN row.meta[MetadataKeyChunkCount] ELSE 0,
     Error |-> MetaString(row.meta, MetadataKeyError)]

RECURSIVE MapDocs(_)
MapDocs(rows) ==
    IF rows = <<>> THEN <<>>
    ELSE <<ragoDocToAskDoc(Head(rows))>> \o MapDocs(Tail(rows))

ListDocumentsByCollection(store, collectionID) ==
    MapDocs(SelectSeq(store, LAMBDA row :
        /\ MetadataKeyCollectionID \in DOMAIN row.meta
        /\ row.meta[MetadataKeyCollectionID] = collectionID))

\* ------------------------------------------------------------------ admin: collections
CreateCollection ==
    /\ nextCollection < MaxCollections
    /\ nextCollection' = nextCollection + 1
    /\ collections' =
          [c \in (DOMAIN collections) \cup {nextCollection + 1} |->
              IF c = nextCollection + 1
              THEN [name |-> "Docs", document_count |-> 0]
              ELSE collections[c]]
    /\ resp' = Response("CreateCollection", 201, FALSE)
    /\ UNCHANGED <<auxVars, edgeVars, chatVars, orchestrator, dirs, files, uploads, ragoDocs, nUploads, nDeletes>>

GetCollection(id) ==
    /\ resp' = IF id \in DOMAIN collections
               THEN Response("GetCollection", 200, FALSE)
               ELSE Response("GetCollection", 404, TRUE)
    /\ UNCHANGED <<auxVars, edgeVars, chatVars, orchestrator, collections, nextCollection, dirs, files, uploads,
                   ragoDocs, nUploads, nDeletes>>

UpdateCollection(id, name) ==
    /\ IF id \in DOMAIN collections
       THEN /\ collections' = [collections EXCEPT ![id].name =
                                  IF name # "" THEN name ELSE @]
            /\ resp' = Response("UpdateCollection", 200, FALSE)
       ELSE /\ resp' = Response("UpdateCollection", 404, TRUE)
            /\ UNCHANGED collections
    /\ UNCHANGED <<auxVars, edgeVars, chatVars, orchestrator, nextCollection, dirs, files, uploads, ragoDocs,
                   nUploads, nDeletes>>

DeleteCollection(id) ==
    /\ IF id \in DOMAIN collections
       THEN /\ collections' = RemoveKey(collections, id)
            /\ resp' = Response("DeleteCollection", 200, FALSE)
       ELSE /\ resp' = Response("DeleteCollection", 500, TRUE)
            /\ UNCHANGED collections
    /\ UNCHANGED <<auxVars, edgeVars, chatVars, orchestrator, nextCollection, dirs, files, uploads, ragoDocs,
                   nUploads, nDeletes>>

\* ------------------------------------------------------------------ upload
\* Handler.UploadDocument up to IngestService.UploadDocument's io.Copy: the
\* collection check, the file type check, MkdirAll and the file write.
UploadBegin(u, collectionID, filename, metadata) ==
    /\ uploads[u].pc = "idle"
    /\ \A v \in UploadSlots : v < u => uploads[v].pc # "idle"
    /\ IF collectionID \notin DOMAIN collections
       THEN /\ resp' = Response("UploadDocument", 400, TRUE)
            /\ UNCHANGED <<dirs, files, uploads>>
       ELSE IF DetectFileType(filename) = Panic
       THEN /\ resp' = Response("UploadDocument", 500, FALSE)   \* gin.Recovery
            /\ UNCHANGED <<dirs, files, uploads>>
       ELSE IF ~IsSupported(DetectFileType(filename))
       THEN /\ resp' = Response("UploadDocument", 400, FALSE)
            /\ UNCHANGED <<dirs, files, uploads>>
       ELSE /\ dirs' = dirs \cup {collectionID}
            /\ files' = files \cup
                  {[coll |-> collectionID, id |-> DocID(u), ext |-> Ext(filename)]}
            /\ uploads' = [uploads EXCEPT ![u] =
                  [@ EXCEPT !.pc = "saved", !.coll = collectionID,
                            !.filename = filename, !.meta = metadata]]
            /\ UNCHANGED resp
    /\ UNCHANGED <<auxVars, edgeVars, chatVars, orchestrator, collections, nextCollection, ragoDocs, nUploads, nDeletes>>

\* Faulty variant of TaskContext: the goroutine is given the request's context.
TaskContext_request == "request"

\* The context handed to the ingestDocument goroutine: context.Background().
TaskContext == "background"

\* IngestService.UploadDocument from UpdateDocumentCount to its return: the count,
\* the Document, the detached ingestDocument goroutine.
UploadCommit(u) ==
    /\ uploads[u].pc = "saved"
    /\ collections' = UpdateDocumentCount(collections, uploads[u].coll, 1)
    /\ uploads' = [uploads EXCEPT ![u] =
          [@ EXCEPT !.pc = "returned", !.task = "spawned", !.ctx = TaskContext,
                    !.document =
                        [ID |-> DocID(u),
                         CollectionID |-> uploads[u].coll,
                         Filename |-> uploads[u].filename,
                         FileType |-> DetectFileType(uploads[u].filename),
                         Status |-> DocumentStatusPending,
                         ChunkCount |-> 0,
                         Error |-> "",
                         Metadata |-> uploads[u].meta]]]
    /\ nUploads' = [nUploads EXCEPT ![uploads[u].coll] = @ + 1]
    /\ UNCHANGED <<auxVars, edgeVars, chatVars, orchestrator, nextCollection, dirs, files, ragoDocs, nDeletes, resp>>

\* c.JSON(http.StatusCreated, document): the encoder reads the fields of the
\* Document the goroutine writes, ID first and Status later, with no lock.
UploadEncodeID(u) ==
    /\ uploads[u].pc = "returned"
    /\ uploads' = [uploads EXCEPT ![u] =
          [@ EXCEPT !.pc = "encoding", !.body = [@ EXCEPT !.id = uploads[u].document.ID]]]
    /\ UNCHANGED <<auxVars, edgeVars, chatVars, orchestrator, collections, nextCollection, dirs, files, ragoDocs,
                   nUploads, nDeletes, resp>>

\* The handler returns after the last field is encoded; net/http then cancels the
\* request's context.  cancelledAt keeps where the task stood at that moment.
UploadEncodeStatus(u) ==
    /\ uploads[u].pc = "encoding"
    /\ uploads' = [uploads EXCEPT ![u] =
          [@ EXCEPT !.pc = "responded",
                    !.body = [@ EXCEPT !.status = uploads[u].document.Status],
                    !.cancelledAt = IF @ = "" THEN uploads[u].task ELSE @]]
    /\ UNCHANGED <<auxVars, edgeVars, chatVars, orchestrator, collections, nextCollection, dirs, files, ragoDocs,
                   nUploads, nDeletes, resp>>

\* The client drops the upload request while its handler is still writing the
\* response: net/http cancels the request's context.
CancelUpload(u) ==
    /\ uploads[u].pc \in {"returned", "encoding"}
    /\ uploads[u].cancelledAt = ""
    /\ uploads' = [uploads EXCEPT ![u] = [@ EXCEPT !.cancelledAt = uploads[u].task]]
    /\ UNCHANGED <<auxVars, edgeVars, chatVars, orchestrator, collections, nextCollection, dirs, files, ragoDocs,
                   nUploads, nDeletes, resp>>

\* ------------------------------------------------------------------ ingestDocument
\* The goroutine's context is cancelled: it is the request's, and that is cancelled.
TaskCancelled(u) == uploads[u].ctx = "request" /\ uploads[u].cancelledAt # ""

\* The metadata bag handed to rago: the upload's fields, then the caller's on top.
IngestMetadata(document) ==
    Merge([k \in {MetadataKeyCollectionID, MetadataKeyFilename, MetadataKeyFileType,
                  MetadataKeyStatus} |->
              CASE k = MetadataKeyCollectionID -> document.CollectionID
                [] k = MetadataKeyFilename -> document.Filename
                [] k = MetadataKeyFileType -> document.FileType
                [] k = MetadataKeyStatus -> DocumentStatusProcessing],
          document.Metadata)

\* The chunk count rago reports for a file.
ChunkCountOf(filename) == Len(filename)

\* orchestrator.IngestFile returned a response: rago holds the row under its own
\* id, and the goroutine sets document.ID to it.
IngestFileOk(u) ==
    /\ uploads[u].task = "spawned"
    /\ orchestrator # "nil"
    /\ ~TaskCancelled(u)          \* IngestFile(ctx, ...) fails on a cancelled context
    /\ ragoDocs' = Append(ragoDocs,
          [id |-> RagoID(u), meta |-> IngestMetadata(uploads[u].document),
           origin |-> uploads[u].document.CollectionID])
    /\ uploads' = [uploads EXCEPT ![u] =
          [@ EXCEPT !.task = "ingested", !.document = [@ EXCEPT !.ID = RagoID(u)]]]
    /\ UNCHANGED <<auxVars, edgeVars, chatVars, orchestrator, collections, nextCollection, dirs, files,
                   nUploads, nDeletes, resp>>

\* orchestrator.IngestFile returned an error: rago holds no row.
IngestFileErr(u) ==
    /\ uploads[u].task = "spawned"
    /\ orchestrator # "nil"
    /\ uploads' = [uploads EXCEPT ![u] = [@ EXCEPT !.task = "ingestErr"]]
    /\ UNCHANGED <<auxVars, edgeVars, chatVars, orchestrator, collections, nextCollection, dirs, files, ragoDocs,
                   nUploads, nDeletes, resp>>

\* Success: UpdateDocumentMetadata(document.ID, {chunk_count, status: ready}), then
\* document.Status and document.ChunkCount.
RecordReady(u) ==
    /\ uploads[u].task = "ingested"
    /\ ragoDocs' = UpdateDocumentMetadata(ragoDocs, uploads[u].document.ID,
          [k \in {MetadataKeyChunkCount, MetadataKeyStatus} |->
              IF k = MetadataKeyStatus THEN DocumentStatusReady
              ELSE ChunkCountOf(uploads[u].document.Filename)])
    /\ uploads' = [uploads EXCEPT ![u] =
          [@ EXCEPT !.task = "done",
                    !.document = [@ EXCEPT !.Status = DocumentStatusReady,
                                           !.ChunkCount = ChunkCountOf(uploads[u].document.Filename)]]]
    /\ UNCHANGED <<auxVars, edgeVars, chatVars, orchestrator, collections, nextCollection, dirs, files,
                   nUploads, nDeletes, resp>>

\* Failure: UpdateDocumentMetadata(document.ID, {status: failed, error}) with the
\* upload's own uuid, then document.Status and document.Error.
RecordFailed(u) ==
    /\ uploads[u].task = "ingestErr"
    /\ ragoDocs' = UpdateDocumentMetadata(ragoDocs, uploads[u].document.ID,
          [k \in {MetadataKeyStatus, MetadataKeyError} |->
              IF k = MetadataKeyStatus THEN DocumentStatusFailed ELSE IngestErrorText])
    /\ uploads' = [uploads EXCEPT ![u] =
          [@ EXCEPT !.task = "done",
                    !.document = [@ EXCEPT !.Status = DocumentStatusFailed,
                                           !.Error = IngestErrorText]]]
    /\ UNCHANGED <<auxVars, edgeVars, chatVars, orchestrator, collections, nextCollection, dirs, files,
                   nUploads, nDeletes, resp>>

\* No orchestrator: the goroutine marks its Document ready with 0 chunks.
IngestWithoutOrchestrator(u) ==
    /\ uploads[u].task = "spawned"
    /\ orchestrator = "nil"
    /\ uploads' = [uploads EXCEPT ![u] =
          [@ EXCEPT !.task = "done",
                    !.document = [@ EXCEPT !.Status = DocumentStatusReady, !.ChunkCount = 0]]]
    /\ UNCHANGED <<auxVars, edgeVars, chatVars, orchestrator, collections, nextCollection, dirs, files, ragoDocs,
                   nUploads, nDeletes, resp>>

ingestDocument(u) ==
    \/ IngestFileOk(u)
    \/ IngestFileErr(u)
    \/ RecordReady(u)
    \/ RecordFailed(u)
    \/ IngestWithoutOrchestrator(u)

\* ------------------------------------------------------------------ admin: documents
DocumentIds == { DocID(u) : u \in UploadSlots } \cup { RagoID(u) : u \in UploadSlots }

\* Handler.DeleteDocument -> AdminService.DeleteDocument -> documentStore.Delete.
DeleteDocument(id, missingIsError) ==
    /\ IF orchestrator = "nil"
       THEN /\ resp' = Response("DeleteDocument", 500, TRUE)     \* domain.ErrNotFound
            /\ UNCHANGED <<ragoDocs, nDeletes>>
       ELSE IF HasDoc(ragoDocs, id)
       THEN /\ ragoDocs' = StoreDelete(ragoDocs, id)
            /\ nDeletes' = [nDeletes EXCEPT ![ragoDocs[DocIndex(ragoDocs, id)].origin] = @ + 1]
            /\ resp' = Response("DeleteDocument", 200, FALSE)
       ELSE /\ resp' = Response("DeleteDocument", IF missingIsError THEN 500 ELSE 200, TRUE)
            /\ UNCHANGED <<ragoDocs, nDeletes>>
    /\ UNCHANGED <<auxVars, edgeVars, chatVars, orchestrator, collections, nextCollection, dirs, files, uploads, nUploads>>

\* Handler.GetDocument -> AdminService.GetDocument -> documentStore.Get.
GetDocument(id) ==
    /\ resp' = IF orchestrator = "nil" THEN Response("GetDocument", 500, TRUE)
               ELSE IF HasDoc(ragoDocs, id) THEN Response("GetDocument", 200, FALSE)
               ELSE Response("GetDocument", 500, TRUE)
    /\ UNCHANGED <<auxVars, edgeVars, chatVars, orchestrator, collections, nextCollection, dirs, files, uploads,
                   ragoDocs, nUploads, nDeletes>>

\* ------------------------------------------------------------------ IngestService.DeleteDocument
\* The extensions IngestService.DeleteDocument tries, in its order.
RemovableExts ==
    << <<".", "t", "x", "t">>, <<".", "p", "d", "f">>, <<".", "m", "d">>,
       <<".", "h", "t", "m", "l">> >>

RECURSIVE RemoveStored(_, _, _, _)
\* for _, ext := range exts { if os.Remove(path + ext) == nil { break } }
RemoveStored(fs, collectionID, id, exts) ==
    IF exts = <<>> THEN fs
    ELSE LET f == [coll |-> collectionID, id |-> id, ext |-> Head(exts)]
         IN IF f \in fs THEN fs \ {f} ELSE RemoveStored(fs, collectionID, id, Tail(exts))

\* Faulty variant of IngestDeleteDocument: the count is only updated when a file
\* was removed.
IngestDeleteDocument_needsFile(id, collectionID, storeOk) ==
    /\ collectionID \in DOMAIN collections
          => collections[collectionID].document_count + MaxDeficit > 0
    /\ IF orchestrator = "nil" \/ ~storeOk
       THEN /\ resp' = Response("IngestService.DeleteDocument", 500, FALSE)
            /\ UNCHANGED <<ragoDocs, files, collections, nDeletes>>
       ELSE /\ ragoDocs' = StoreDelete(ragoDocs, id)
            /\ files' = RemoveStored(files, collectionID, id, RemovableExts)
            /\ collections' = IF files' # files
                              THEN UpdateDocumentCount(collections, collectionID, -1)
                              ELSE collections
            /\ nDeletes' = IF HasDoc(ragoDocs, id)
                           THEN [nDeletes EXCEPT ![ragoDocs[DocIndex(ragoDocs, id)].origin] = @ + 1]
                           ELSE nDeletes
            /\ resp' = Response("IngestService.DeleteDocument", 200, FALSE)
    /\ UNCHANGED <<auxVars, edgeVars, chatVars, orchestrator, nextCollection, dirs, uploads, nUploads>>

\* IngestService.DeleteDocument(ctx, id, collectionID).  storeOk: whether
\* documentStore.Delete returns nil.
IngestDeleteDocument(id, collectionID, storeOk) ==
    /\ collectionID \in DOMAIN collections
          => collections[collectionID].document_count + MaxDeficit > 0
    /\ IF orchestrator = "nil" \/ ~storeOk
       THEN /\ resp' = Response("IngestService.DeleteDocument", 500, FALSE)
            /\ UNCHANGED <<ragoDocs, files, collections, nDeletes>>
       ELSE /\ ragoDocs' = StoreDelete(ragoDocs, id)
            /\ files' = RemoveStored(files, collectionID, id, RemovableExts)
            /\ collections' = UpdateDocumentCount(collections, collectionID, -1)
            /\ nDeletes' = IF HasDoc(ragoDocs, id)
                           THEN [nDeletes EXCEPT ![ragoDocs[DocIndex(ragoDocs, id)].origin] = @ + 1]
                           ELSE nDeletes
            /\ resp' = Response("IngestService.DeleteDocument", 200, FALSE)
    /\ UNCHANGED <<auxVars, edgeVars, chatVars, orchestrator, nextCollection, dirs, uploads, nUploads>>

NextDelete ==
    \/ CreateCollection
    \/ \E id \in CollIds : DeleteCollection(id)
    \/ \E u \in UploadSlots, c \in CollIds, r \in UploadRequests :
          UploadBegin(u, c, r.filename, r.metadata)
    \/ \E u \in UploadSlots : UploadCommit(u)
    \/ \E u \in UploadSlots : ingestDocument(u)
    \/ \E id \in DocumentIds, c \in CollIds, ok \in BOOLEAN : IngestDeleteDocument(id, c, ok)

SpecDelete == InitIngest /\ [][NextDelete]_vars

\* ------------------------------------------------------------------ admin: document listing
\* Go's int arithmetic: the result wraps to the width of an int.
Wrap(x) == ((x + 2 ^ (IntBits - 1)) % (2 ^ IntBits)) - 2 ^ (IntBits - 1)

\* The document store after n successful ingestions; every third upload carried
\* caller metadata that names another collection id.
StoreOf(n) ==
    [i \in 1..n |->
        [id |-> RagoID(i),
         meta |-> [k \in {MetadataKeyCollectionID, MetadataKeyStatus} |->
                      IF k = MetadataKeyStatus THEN DocumentStatusReady
                      ELSE IF i % 3 = 0 THEN MaxCollections + 1 ELSE 1],
         origin |-> 1]]

\* The page and page_size query parameters offered to the handler.
PageParams == {-1, 0, 1, 2, 3, 4, 12, 23, 1025}
PageSizeParams == {-1, 0, 1, 2, 7, 20, 64, 100, 101}

\* Handler.ListDocuments and AdminService.ListDocuments.
ListDocuments(collectionID, pageParam, pageSizeParam) ==
    LET page == IF pageParam < 1 THEN 1 ELSE pageParam
        pageSize == IF pageSizeParam < 1 \/ pageSizeParam > MaxPageSize
                    THEN DefaultPageSize ELSE pageSizeParam
        docs == IF orchestrator = "nil" THEN <<>>
                ELSE ListDocumentsByCollection(ragoDocs, collectionID)
        total == Len(docs)
        start0 == Wrap((page - 1) * pageSize)
        start == IF start0 < 0 THEN 0 ELSE start0
        end0 == Wrap(start + pageSize)
        end == IF end0 > total THEN total ELSE end0
    IN /\ listResp' =
             IF start < total /\ end < start
             THEN [NoListing EXCEPT !.collectionID = collectionID, !.reqPage = pageParam,
                                    !.reqPageSize = pageSizeParam,
                                    !.status = 500]       \* slice bounds panic, gin.Recovery
             ELSE [collectionID |-> collectionID, reqPage |-> pageParam,
                   reqPageSize |-> pageSizeParam, page |-> page, page_size |-> pageSize,
                   documents |-> IF start < total
                                 THEN [i \in 1..(end - start) |-> docs[start + i].ID]
                                 ELSE <<>>,
                   total |-> total, status |-> 200]
       /\ UNCHANGED <<orchestrator, ingestVars, resp, chatVars, edgeVars, parser, updates>>

InitList ==
    /\ orchestrator = "rag"
    /\ ChatInit
    /\ EdgeInit
    /\ collections = [c \in CollIds |-> [name |-> "Docs", document_count |-> 0]]
    /\ nextCollection = MaxCollections
    /\ dirs = {}
    /\ files = {}
    /\ uploads = [u \in UploadSlots |-> IdleUpload]
    /\ ragoDocs \in { StoreOf(n) : n \in 0..MaxDocs }
    /\ nUploads = [c \in CollIds |-> 0]
    /\ nDeletes = [c \in CollIds |-> 0]
    /\ resp = NoResponse

NextList ==
    \E c \in 1..(MaxCollections + 1), p \in PageParams, ps \in PageSizeParams :
        ListDocuments(c, p, ps)

SpecList == InitList /\ [][NextList]_vars

\* ------------------------------------------------------------------ admin: sites
DefaultWidgetConfig ==
    [theme |-> "light", primary_color |-> "#3b82f6", position |-> "bottom-right",
     welcome_message |-> "Hi! How can I help you?", placeholder |-> "Ask a question...",
     show_sources |-> TRUE]

DarkWidgetConfig == [DefaultWidgetConfig EXCEPT !.theme = "dark", !.show_sources = FALSE]

\* Request bodies; a nil *WidgetConfig is <<>>, a set one is <<config>>.
CreateSiteRequests ==
    { [name |-> "Site", domain |-> "example.com", collection_ids |-> <<1>>,
       widget_config |-> <<>>, rate_limit |-> 0] }

UpdateSiteRequests ==
    { [name |-> "Renamed", domain |-> "", collection_ids |-> <<>>,
       widget_config |-> <<>>, rate_limit |-> 0],
      [name |-> "", domain |-> "", collection_ids |-> <<>>,
       widget_config |-> <<DarkWidgetConfig>>, rate_limit |-> 0] }

CreateSite(req) ==
    /\ nextSite < MaxSites
    /\ nextSite' = nextSite + 1
    /\ sites' =
          [s \in (DOMAIN sites) \cup {nextSite + 1} |->
              IF s = nextSite + 1
              THEN [name |-> req.name,
                    domain |-> req.domain,
                    collection_ids |-> req.collection_ids,
                    widget_config |-> IF req.widget_config # <<>>
                                      THEN req.widget_config[1] ELSE DefaultWidgetConfig,
                    rate_limit |-> IF req.rate_limit = 0 THEN 100 ELSE req.rate_limit]
              ELSE sites[s]]
    /\ resp' = Response("CreateSite", 201, FALSE)
    /\ UNCHANGED <<auxVars, edgeVars, orchestrator, ingestVars, sessions, messages, turns>>

GetSite(id) ==
    /\ resp' = IF id \in DOMAIN sites
               THEN Response("GetSite", 200, FALSE)
               ELSE Response("GetSite", 404, TRUE)
    /\ UNCHANGED <<auxVars, edgeVars, orchestrator, ingestVars, chatVars>>

UpdateSite(id, req) ==
    /\ IF id \in DOMAIN sites
       THEN /\ sites' = [sites EXCEPT ![id] =
                  [name |-> IF req.name # "" THEN req.name ELSE @.name,
                   domain |-> IF req.domain # "" THEN req.domain ELSE @.domain,
                   collection_ids |-> IF req.collection_ids # <<>>
                                      THEN req.collection_ids ELSE @.collection_ids,
                   widget_config |-> IF req.widget_config # <<>>
                                     THEN req.widget_config[1] ELSE @.widget_config,
                   rate_limit |-> IF req.rate_limit > 0 THEN req.rate_limit ELSE @.rate_limit]]
            /\ resp' = Response("UpdateSite", 200, FALSE)
       ELSE /\ resp' = Response("UpdateSite", 404, TRUE)
            /\ UNCHANGED sites
    /\ served' = [served EXCEPT ![id] = <<>>]
    /\ UNCHANGED <<auxVars, cfg, request, configResp, widget>>
    /\ UNCHANGED <<orchestrator, ingestVars, nextSite, sessions, messages, turns>>

\* DELETE FROM sites; sessions.site_id is ON DELETE SET NULL, which SQLite applies
\* only on a connection that ran PRAGMA foreign_keys = ON (NewDB runs it once, on
\* one connection of the pool).
DeleteSite(id, foreignKeys) ==
    /\ IF id \in DOMAIN sites
       THEN /\ sites' = RemoveKey(sites, id)
            /\ sessions' = [x \in DOMAIN sessions |->
                               IF foreignKeys /\ sessions[x].site_id = id
                               THEN [sessions[x] EXCEPT !.site_id = 0]
                               ELSE sessions[x]]
            /\ resp' = Response("DeleteSite", 200, FALSE)
       ELSE /\ resp' = Response("DeleteSite", 500, TRUE)
            /\ UNCHANGED <<sites, sessions>>
    /\ served' = [served EXCEPT ![id] = <<>>]
    /\ UNCHANGED <<auxVars, cfg, request, configResp, widget>>
    /\ UNCHANGED <<orchestrator, ingestVars, nextSite, messages, turns>>

\* ------------------------------------------------------------------ widget: GetConfig
\* Handler.GetConfig: the scheme of the request, X-Forwarded-Proto first.
RequestScheme(tls, forwardedProto) ==
    IF forwardedProto # "" THEN forwardedProto
    ELSE IF tls THEN "https" ELSE "http"

\* WidgetService.GetWidgetConfig: base_url from the request's scheme and host, the
\* configured one when the request has no host.  A URL is the tuple of its parts.
BaseURL(requestScheme, requestHost) ==
    IF requestHost # ""
    THEN <<IF requestScheme = "" THEN "http" ELSE requestScheme, "://", requestHost>>
    ELSE <<cfg.baseURL>>

\* Faulty variant of ConfigPayload: the site name is qualified with the request host.
ConfigPayload_perHost(id, requestHost) ==
    [site_id |-> id, name |-> <<sites[id].name, requestHost>>,
     config |-> sites[id].widget_config]

\* WidgetConfigResponse without base_url: site_id, name, config.
ConfigPayload(id, requestHost) ==
    [site_id |-> id, name |-> <<sites[id].name>>, config |-> sites[id].widget_config]

RequestHosts == {"", "docs.example"}

GetConfig(id, tls, forwardedProto, requestHost) ==
    /\ IF id \in DOMAIN sites
       THEN /\ configResp' =
                  [status |-> 200,
                   payload |-> <<ConfigPayload(id, requestHost)>>,
                   base_url |-> BaseURL(RequestScheme(tls, forwardedProto), requestHost),
                   repeat |-> served[id] # <<>>]
            /\ served' = IF served[id] = <<>>
                         THEN [served EXCEPT ![id] = <<ConfigPayload(id, requestHost)>>]
                         ELSE served
       ELSE /\ configResp' = [status |-> 404, payload |-> <<>>, base_url |-> <<>>,
                              repeat |-> FALSE]
            /\ UNCHANGED served
    /\ UNCHANGED <<auxVars, orchestrator, ingestVars, resp, chatVars, cfg, request, widget>>

\* ------------------------------------------------------------------ widget: Chat
UserMessages == {"hi"}

AgentAnswer == <<"The answer">>

\* Faulty variant of ErrorAnswer: a fixed apology that drops the error text.
ErrorAnswer_generic(err) == <<"Sorry, something went wrong.">>

\* fmt.Sprintf("Error from Agent: %v", err)
ErrorAnswer(err) == <<"Error from Agent: ", err>>

\* fmt.Sprintf("Orchestrator Agent not configured. Your question: %s", req.Message)
PlaceholderAnswer(message) ==
    <<"Orchestrator Agent not configured. Your question: ", message>>

\* The errors OrchestratorService.Chat returns, per build.
ChatErrors ==
    IF orchestrator = "rag"
    THEN {"embedding failed", "search failed", "generation failed"}
    ELSE {"agent chat failed"}

\* SessionRepository.Create: the next uuid.
NewSessionID == Cardinality(DOMAIN sessions) + 1

\* Faulty variant of SessionForTurn: a new session for every turn.
SessionForTurn_alwaysNew(reqSession) == [id |-> NewSessionID, create |-> TRUE]

\* ChatService.Chat "get or create session": the session id the turn uses and
\* whether a row is created for it.
SessionForTurn(reqSession) ==
    IF reqSession = 0
    THEN [id |-> NewSessionID, create |-> TRUE]
    ELSE [id |-> reqSession, create |-> FALSE]

\* SessionRepository.CreateMessage: INSERT INTO messages.
CreateMessage(table, sessionID, role, content, t) ==
    Append(table, [session_id |-> sessionID, role |-> role, content |-> content, turn |-> t])

\* Faulty variant of SaveUserMessage: the write is skipped.
SaveUserMessage_skipped(table, sessionID, message, t) == table

\* ChatService.Chat "Save user message".
SaveUserMessage(table, sessionID, message, t) ==
    CreateMessage(table, sessionID, "user", <<message>>, t)

\* The response ChatService.Chat builds from the orchestrator's outcome.
ChatAnswer(outcome) ==
    IF outcome = "ok" THEN AgentAnswer ELSE ErrorAnswer(outcome)

TurnFree(t) ==
    /\ turns[t].pc = "idle"
    /\ \A v \in TurnSlots : v < t => turns[v].pc # "idle"

\* Handler.Chat and ChatService.Chat up to the orchestrator call: bind, site
\* lookup, session, user message.  insertOk: whether the INSERT of the user
\* message succeeds.
ChatBegin(t, siteID, reqSession, message, insertOk) ==
    /\ TurnFree(t)
    /\ IF message = ""
       THEN /\ resp' = Response("Chat", 400, FALSE)      \* binding:"required"
            /\ UNCHANGED <<sessions, messages, turns>>
       ELSE IF siteID \notin DOMAIN sites
       THEN /\ resp' = Response("Chat", 500, TRUE)       \* domain.ErrNotFound
            /\ UNCHANGED <<sessions, messages, turns>>
       ELSE LET s == SessionForTurn(reqSession)
                base == [IdleTurn EXCEPT !.kind = "chat", !.site = siteID,
                                         !.reqSession = reqSession, !.sessionID = s.id,
                                         !.message = message,
                                         !.created = IF s.create THEN s.id ELSE 0]
            IN /\ sessions' = IF s.create
                              THEN [x \in (DOMAIN sessions) \cup {s.id} |->
                                       IF x = s.id THEN [site_id |-> siteID] ELSE sessions[x]]
                              ELSE sessions
               /\ IF ~insertOk
                  THEN /\ turns' = [turns EXCEPT ![t] =
                              [base EXCEPT !.pc = "done", !.storeErr = TRUE, !.status = 500]]
                       /\ UNCHANGED messages
                  ELSE /\ messages' = SaveUserMessage(messages, s.id, message, t)
                       /\ turns' = [turns EXCEPT ![t] =
                              IF orchestrator # "nil"
                              THEN [base EXCEPT !.pc = "calling"]
                              ELSE [base EXCEPT !.pc = "answered",
                                                !.answer = PlaceholderAnswer(message)]]
               /\ UNCHANGED resp
    /\ UNCHANGED <<auxVars, edgeVars, orchestrator, ingestVars, sites, nextSite>>

\* OrchestratorService.Chat returns: an answer, or one of its errors.
ChatReturn(t, outcome) ==
    /\ turns[t].kind = "chat"
    /\ turns[t].pc = "calling"
    /\ turns' = [turns EXCEPT ![t] =
          [@ EXCEPT !.pc = "answered", !.outcome = outcome, !.answer = ChatAnswer(outcome)]]
    /\ UNCHANGED <<auxVars, edgeVars, orchestrator, ingestVars, resp, sites, nextSite, sessions, messages>>

\* ChatService.Chat from "Save assistant message" to Handler.Chat's c.JSON.
\* insertOk: the INSERT of the assistant message succeeds; updateOk: the UPDATE of
\* the session's updated_at succeeds.
ChatFinish(t, insertOk, updateOk) ==
    /\ turns[t].kind = "chat"
    /\ turns[t].pc = "answered"
    /\ messages' = IF insertOk
                   THEN CreateMessage(messages, turns[t].sessionID, "assistant",
                                      turns[t].answer, t)
                   ELSE messages
    /\ turns' = [turns EXCEPT ![t] =
          IF insertOk /\ updateOk
          THEN [@ EXCEPT !.pc = "done", !.status = 200,
                         !.respSession = turns[t].sessionID,
                         !.respAnswer = turns[t].answer]
          ELSE [@ EXCEPT !.pc = "done", !.storeErr = TRUE, !.status = 500]]
    /\ UNCHANGED <<auxVars, edgeVars, orchestrator, ingestVars, resp, sites, nextSite, sessions>>

\* ------------------------------------------------------------------ widget: ChatStream
Chunk(type, content) == [type |-> type, content |-> content]

\* ch <- chunk on the buffered channel; blocks while the buffer is full.
CanSend(t) == Len(turns[t].ch) < StreamCap

\* sent is the history of the chunks put on the channel.
Send(turn, chunk, producer) ==
    [turn EXCEPT !.ch = Append(@, chunk), !.sent = Append(@, chunk), !.producer = producer]

\* The relay's frame for a chunk: event: <chunk.Type>, data: json.Marshal(chunk).
Frame(chunk) ==
    [event |-> chunk.type, json |-> TRUE, type |-> chunk.type, content |-> chunk.content]

\* writeSSE(w, eventType, data): the data is the bare text, not a JSON chunk.
TextFrame(eventType, data) ==
    [event |-> eventType, json |-> FALSE, type |-> "", content |-> data]

\* The chunk a frame stands for on the wire: its event name and its text.
FrameChunk(frame) == Chunk(frame.event, frame.content)

\* The chunk sequence of the turn so far: the frames written, then the chunks
\* still on the channel.
Produced(t) ==
    [i \in 1..Len(turns[t].frames) |-> FrameChunk(turns[t].frames[i])] \o turns[t].ch

ContentCount(t) ==
    Cardinality({i \in 1..Len(Produced(t)) : Produced(t)[i].type = "content"})

\* Handler.ChatStream up to c.Stream, and ChatService.ChatStream: bind, site
\* lookup, start of the producer.  runStreamOk: agentService.RunStream succeeds.
StreamBegin(t, siteID, message, runStreamOk) ==
    /\ TurnFree(t)
    /\ IF message = ""
       THEN /\ resp' = Response("ChatStream", 400, FALSE)
            /\ UNCHANGED turns
       ELSE IF siteID \notin DOMAIN sites
       THEN /\ resp' = Response("ChatStream", 200, TRUE)   \* writeSSE "error" frame
            /\ UNCHANGED turns
       ELSE LET base == [IdleTurn EXCEPT !.kind = "stream", !.site = siteID,
                                         !.message = message]
            IN /\ turns' = [turns EXCEPT ![t] =
                     IF orchestrator = "agent" /\ ~runStreamOk
                     THEN [base EXCEPT !.pc = "done", !.status = 200,
                                       !.producer = "notStarted",
                                       !.frames = <<TextFrame("error", "agent stream failed")>>]
                     ELSE [base EXCEPT !.pc = "streaming",
                                       !.producer = orchestrator]]
               /\ UNCHANGED resp
    /\ UNCHANGED <<auxVars, edgeVars, orchestrator, ingestVars, sites, nextSite, sessions, messages>>

Streaming(t, producer) ==
    /\ turns[t].kind = "stream"
    /\ turns[t].producer = producer
    /\ CanSend(t)

StreamStep(t, chunk, producer) ==
    /\ turns' = [turns EXCEPT ![t] = Send(@, chunk, producer)]
    /\ UNCHANGED <<auxVars, edgeVars, orchestrator, ingestVars, resp, sites, nextSite, sessions, messages>>

\* ChatService.ChatStream, the producer used without an orchestrator.
FallbackThinking(t) ==
    Streaming(t, "nil") /\ StreamStep(t, Chunk("thinking", "Processing..."), "nil:content")

FallbackContent(t) ==
    /\ Streaming(t, "nil:content")
    /\ StreamStep(t, Chunk("content", "Orchestrator Agent not configured."), "nil:done")

\* Faulty variant of FallbackDone: the producer returns without sending done.
FallbackDone_silent(t) ==
    /\ Streaming(t, "nil:done")
    /\ turns' = [turns EXCEPT ![t] = [@ EXCEPT !.producer = "closed"]]
    /\ UNCHANGED <<auxVars, edgeVars, orchestrator, ingestVars, resp, sites, nextSite, sessions, messages>>

FallbackDone(t) ==
    Streaming(t, "nil:done") /\ StreamStep(t, Chunk("done", ""), "closed")

\* OrchestratorService.ChatStream, simple RAG build.
RagSearching(t) ==
    Streaming(t, "rag") /\ StreamStep(t, Chunk("thinking", "Searching..."), "rag:retrieve")

RetrieveOutcomes == {"embedding failed", "search failed", "empty", "found"}

\* embedder.Embed and sqliteStore.Search, and the chunk the producer sends next.
RagRetrieve(t, outcome) ==
    /\ Streaming(t, "rag:retrieve")
    /\ CASE outcome = "empty" ->
              StreamStep(t, Chunk("content", "No relevant documents found."), "rag:done")
         [] outcome = "found" ->
              StreamStep(t, Chunk("thinking", "Generating..."), "rag:generate")
         [] OTHER ->
              StreamStep(t, Chunk("error", outcome), "closed")

\* generator.Stream's callback.
RagContent(t) ==
    /\ Streaming(t, "rag:generate")
    /\ ContentCount(t) < MaxContent
    /\ StreamStep(t, Chunk("content", "token"), "rag:generate")

RagGenerateErr(t) ==
    /\ Streaming(t, "rag:generate")
    /\ StreamStep(t, Chunk("error", "generation failed"), "closed")

RagSources(t) ==
    Streaming(t, "rag:generate") /\ StreamStep(t, Chunk("sources", ""), "rag:done")

RagDone(t) ==
    Streaming(t, "rag:done") /\ StreamStep(t, Chunk("done", ""), "closed")

\* OrchestratorService.ChatStream, agent build: one event of eventCh.
AgentEvents == {"thinking", "text", "tool_call", "tool_result"}

AgentChunk(event) ==
    CASE event = "thinking" -> Chunk("thinking", "reasoning")
      [] event = "text" -> Chunk("content", "token")
      [] event = "tool_call" -> Chunk("thinking", "Using tool: search")
      [] event = "tool_result" -> Chunk("thinking", "Tool search completed")

AgentEvent(t, event) ==
    /\ Streaming(t, "agent")
    /\ Len(Produced(t)) < MaxEvents
    /\ StreamStep(t, AgentChunk(event), "agent")

AgentDone(t) ==
    Streaming(t, "agent") /\ StreamStep(t, Chunk("done", ""), "closed")

AgentError(t) ==
    Streaming(t, "agent") /\ StreamStep(t, Chunk("error", "agent error"), "closed")

\* Faulty variant of AgentTrailer: nothing is sent after the loop.
AgentTrailer_missing == <<>>

\* eventCh is closed without a "done" event: the chunks sent after the loop.
AgentTrailer == <<Chunk("done", "")>>

AgentEnd(t) ==
    /\ turns[t].kind = "stream"
    /\ turns[t].producer = "agent"
    /\ Len(turns[t].ch) + Len(AgentTrailer) <= StreamCap
    /\ turns' = [turns EXCEPT ![t] =
          [@ EXCEPT !.ch = @ \o AgentTrailer, !.sent = @ \o AgentTrailer,
                    !.producer = "closed"]]
    /\ UNCHANGED <<auxVars, edgeVars, orchestrator, ingestVars, resp, sites, nextSite, sessions, messages>>

\* Faulty variant of RelayFrame: the chunk is received and no frame is written.
RelayFrame_skipping(t) ==
    /\ turns[t].kind = "stream"
    /\ turns[t].pc = "streaming"
    /\ turns[t].ch # <<>>
    /\ turns' = [turns EXCEPT ![t] = [@ EXCEPT !.ch = Tail(@)]]
    /\ UNCHANGED <<auxVars, edgeVars, orchestrator, ingestVars, resp, sites, nextSite, sessions, messages>>

\* Handler.ChatStream's c.Stream step: one chunk received and written as a frame.
RelayFrame(t) ==
    /\ turns[t].kind = "stream"
    /\ turns[t].pc = "streaming"
    /\ turns[t].ch # <<>>
    /\ turns' = [turns EXCEPT ![t] =
          [@ EXCEPT !.frames = Append(@, Frame(Head(turns[t].ch))), !.ch = Tail(@)]]
    /\ UNCHANGED <<auxVars, edgeVars, orchestrator, ingestVars, resp, sites, nextSite, sessions, messages>>

\* The receive reports the channel closed: the step returns false, the stream ends.
RelayEnd(t) ==
    /\ turns[t].kind = "stream"
    /\ turns[t].pc = "streaming"
    /\ turns[t].ch = <<>>
    /\ turns[t].producer = "closed"
    /\ turns' = [turns EXCEPT ![t] = [@ EXCEPT !.pc = "done", !.status = 200]]
    /\ UNCHANGED <<auxVars, edgeVars, orchestrator, ingestVars, resp, sites, nextSite, sessions, messages>>

NextIngest ==
    \/ CreateCollection
    \/ \E id \in CollIds : GetCollection(id)
    \/ \E id \in CollIds, name \in {"Renamed", ""} : UpdateCollection(id, name)
    \/ \E id \in CollIds : DeleteCollection(id)
    \/ \E u \in UploadSlots, c \in CollIds, r \in UploadRequests :
          UploadBegin(u, c, r.filename, r.metadata)
    \/ \E u \in UploadSlots : UploadCommit(u)
    \/ \E u \in UploadSlots : UploadEncodeID(u)
    \/ \E u \in UploadSlots : UploadEncodeStatus(u)
    \/ \E u \in UploadSlots : CancelUpload(u)
    \/ \E u \in UploadSlots : ingestDocument(u)
    \/ \E id \in DocumentIds, e \in BOOLEAN : DeleteDocument(id, e)
    \/ \E id \in DocumentIds : GetDocument(id)

SpecIngest == InitIngest /\ [][NextIngest]_vars

\* The Go scheduler runs the ingestDocument goroutine whenever it can take a step.
SpecIngestFair == SpecIngest /\ \A u \in UploadSlots : WF_vars(ingestDocument(u))

\* ------------------------------------------------------------------ router and middleware
\* The routes SetupRouter registers, by method and path pattern; group "admin" is
\* the one that carries the Auth middleware.
Routes ==
    { [method |-> "GET", path |-> "/health", group |-> "root"],
      [method |-> "GET", path |-> "/api/widget/config/:site_id", group |-> "widget"],
      [method |-> "POST", path |-> "/api/widget/chat/:site_id", group |-> "widget"],
      [method |-> "GET", path |-> "/api/admin/collections/:id", group |-> "admin"],
      [method |-> "PUT", path |-> "/api/admin/collections/:id", group |-> "admin"],
      [method |-> "DELETE", path |-> "/api/admin/collections/:id", group |-> "admin"],
      [method |-> "POST", path |-> "/api/admin/collections/:id/documents", group |-> "admin"],
      [method |-> "GET", path |-> "/api/admin/collections/:id/documents", group |-> "admin"] }

Methods == {"GET", "POST", "PUT", "DELETE", "OPTIONS"}

Paths == { r.path : r \in Routes } \cup {"/nowhere"}

Registered(method, path) == \E r \in Routes : r.method = method /\ r.path = path

GroupOf(method, path) == (CHOOSE r \in Routes : r.method = method /\ r.path = path).group

\* The handlers gin runs for a request: the engine's middleware, then the group's,
\* then the route's handler; a request that matches no route of its method runs
\* the engine's middleware only and is then answered 404.
HandlerChain(method, path) ==
    IF Registered(method, path)
    THEN <<"Recovery", "CORS">>
         \o (IF GroupOf(method, path) = "admin" THEN <<"Auth">> ELSE <<>>)
         \o <<"handler">>
    ELSE <<"Recovery", "CORS">>

Origins == {"", "https://a.example", "https://b.example"}

AllowLists == { <<"*">>, <<"https://a.example">> }

BearerPrefix == <<"B", "e", "a", "r", "e", "r", " ">>

BasicPrefix == <<"B", "a", "s", "i", "c", " ">>

\* Header values a client sends: nothing, the configured key, another key.
KeyHeaders == { <<>>, APIKey, <<"x">> }

AuthorizationHeaders ==
    { <<>>, BearerPrefix \o APIKey, BearerPrefix \o <<"x">>, BasicPrefix \o APIKey }

HasPrefix(str, prefix) ==
    Len(str) >= Len(prefix) /\ SubSeq(str, 1, Len(prefix)) = prefix

TrimPrefix(str, prefix) ==
    IF HasPrefix(str, prefix) THEN SubSeq(str, Len(prefix) + 1, Len(str)) ELSE str

\* Auth: the key the request presents: X-API-Key, and only when that header is
\* empty the token of an Authorization: Bearer header.
PresentedKey(xApiKey, authorization) ==
    IF xApiKey # <<>> THEN xApiKey
    ELSE IF HasPrefix(authorization, BearerPrefix)
         THEN TrimPrefix(authorization, BearerPrefix)
         ELSE <<>>

\* CORS: some entry of the allow-list is "*" or the request's origin.
OriginAllowed(allowOrigins, origin) ==
    \E i \in 1..Len(allowOrigins) : allowOrigins[i] = "*" \/ allowOrigins[i] = origin

\* Faulty variant of CORSAborts: preflight requests are passed on.
CORSAborts_never(method) == FALSE

\* CORS: the request is a preflight and is answered by the middleware itself.
CORSAborts(method) == method = "OPTIONS"

\* A request arrives at the engine.
Receive(method, path, origin, xApiKey, authorization) ==
    /\ request.done
    /\ request' = [method |-> method, path |-> path, origin |-> origin,
                   xApiKey |-> xApiKey, authorization |-> authorization,
                   chain |-> HandlerChain(method, path), ran |-> <<>>, headers |-> {},
                   status |-> 0, done |-> FALSE]
    /\ UNCHANGED <<auxVars, orchestrator, ingestVars, resp, chatVars, cfg, served, configResp, widget>>

NextHandler == IF request.done \/ Len(request.ran) >= Len(request.chain) THEN ""
               ELSE request.chain[Len(request.ran) + 1]

RouterFrame == <<auxVars, orchestrator, ingestVars, resp, chatVars, cfg, served, configResp, widget>>

\* gin.Recovery: calls the next handler (no handler of this chain panics).
RunRecovery ==
    /\ NextHandler = "Recovery"
    /\ request' = [request EXCEPT !.ran = Append(@, "Recovery")]
    /\ UNCHANGED RouterFrame

\* middleware.CORS
RunCORS ==
    /\ NextHandler = "CORS"
    /\ LET allowed == OriginAllowed(cfg.allowOrigins, request.origin)
           hdrs == IF allowed THEN {"Access-Control-Allow-Origin"} ELSE {}
       IN request' =
             IF CORSAborts(request.method)
             THEN [request EXCEPT !.ran = Append(@, "CORS"), !.headers = hdrs,
                                  !.status = 204, !.done = TRUE]
             ELSE [request EXCEPT !.ran = Append(@, "CORS"), !.headers = hdrs]
    /\ UNCHANGED RouterFrame

\* middleware.Auth
RunAuth ==
    /\ NextHandler = "Auth"
    /\ request' =
          IF cfg.apiKey = <<>>
             \/ PresentedKey(request.xApiKey, request.authorization) = cfg.apiKey
          THEN [request EXCEPT !.ran = Append(@, "Auth")]
          ELSE [request EXCEPT !.ran = Append(@, "Auth"), !.status = 401, !.done = TRUE]
    /\ UNCHANGED RouterFrame

\* The route's handler runs and answers.
RunHandler ==
    /\ NextHandler = "handler"
    /\ request' = [request EXCEPT !.ran = Append(@, "handler"), !.status = 200, !.done = TRUE]
    /\ UNCHANGED RouterFrame

\* The chain of a request without a route is through: gin answers 404.
NoRoute ==
    /\ ~request.done
    /\ Len(request.ran) = Len(request.chain)
    /\ request' = [request EXCEPT !.status = 404, !.done = TRUE]
    /\ UNCHANGED RouterFrame

InitRouter ==
    /\ orchestrator = "nil"
    /\ IngestInit
    /\ ChatInit
    /\ cfg \in { [DefaultConfig EXCEPT !.apiKey = k, !.allowOrigins = a] :
                    k \in {<<>>, APIKey}, a \in AllowLists }
    /\ request = NoRequest
    /\ served = [s \in SiteIds |-> <<>>]
    /\ configResp = NoConfigResp
    /\ widget = IdleWidget
    /\ AuxInit

NextRouter ==
    \/ \E m \in Methods, p \in Paths, o \in Origins, k \in KeyHeaders,
          a \in AuthorizationHeaders : Receive(m, p, o, k, a)
    \/ RunRecovery
    \/ RunCORS
    \/ RunAuth
    \/ RunHandler
    \/ NoRoute

SpecRouter == InitRouter /\ [][NextRouter]_vars

InitSites ==
    /\ orchestrator = "rag"
    /\ IngestInit
    /\ ChatInit
    /\ EdgeInit

NextSites ==
    \/ \E req \in CreateSiteRequests : CreateSite(req)
    \/ \E id \in SiteIds, req \in UpdateSiteRequests : UpdateSite(id, req)
    \/ \E id \in SiteIds, fk \in BOOLEAN : DeleteSite(id, fk)
    \/ \E id \in SiteIds, tls \in BOOLEAN, proto \in {"", "https"}, h \in RequestHosts :
          GetConfig(id, tls, proto, h)
    \/ \E t \in TurnSlots, id \in SiteIds, rs \in 0..MaxTurns,
          m \in UserMessages, ok \in BOOLEAN : ChatBegin(t, id, rs, m, ok)
    \/ \E t \in TurnSlots, o \in {"ok"} \cup ChatErrors : ChatReturn(t, o)
    \/ \E t \in TurnSlots, i \in BOOLEAN, u \in BOOLEAN : ChatFinish(t, i, u)

SpecSites == InitSites /\ [][NextSites]_vars

InitChat ==
    /\ orchestrator \in {"nil", "rag", "agent"}
    /\ IngestInit
    /\ ChatInit
    /\ EdgeInit

NextChat ==
    \/ \E req \in CreateSiteRequests : CreateSite(req)
    \/ \E id \in SiteIds : GetSite(id)
    \/ \E id \in SiteIds, req \in UpdateSiteRequests : UpdateSite(id, req)
    \/ \E id \in SiteIds, fk \in BOOLEAN : DeleteSite(id, fk)
    \/ \E t \in TurnSlots, id \in SiteIds, rs \in 0..MaxTurns,
          m \in UserMessages \cup {""}, ok \in BOOLEAN : ChatBegin(t, id, rs, m, ok)
    \/ \E t \in TurnSlots, o \in {"ok"} \cup ChatErrors : ChatReturn(t, o)
    \/ \E t \in TurnSlots, i \in BOOLEAN, u \in BOOLEAN : ChatFinish(t, i, u)
    \/ \E t \in TurnSlots, id \in SiteIds, m \in UserMessages \cup {""},
          ok \in BOOLEAN : StreamBegin(t, id, m, ok)
    \/ \E t \in TurnSlots : FallbackThinking(t)
    \/ \E t \in TurnSlots : FallbackContent(t)
    \/ \E t \in TurnSlots : FallbackDone(t)
    \/ \E t \in TurnSlots : RagSearching(t)
    \/ \E t \in TurnSlots, o \in RetrieveOutcomes : RagRetrieve(t, o)
    \/ \E t \in TurnSlots : RagContent(t)
    \/ \E t \in TurnSlots : RagGenerateErr(t)
    \/ \E t \in TurnSlots : RagSources(t)
    \/ \E t \in TurnSlots : RagDone(t)
    \/ \E t \in TurnSlots, e \in {"text", "tool_call"} : AgentEvent(t, e)
    \/ \E t \in TurnSlots : AgentDone(t)
    \/ \E t \in TurnSlots : AgentError(t)
    \/ \E t \in TurnSlots : AgentEnd(t)
    \/ \E t \in TurnSlots : RelayFrame(t)
    \/ \E t \in TurnSlots : RelayEnd(t)

SpecChat == InitChat /\ [][NextChat]_vars

\* ------------------------------------------------------------------ stream with a leaving client
\* The client closes the connection while the response is streamed: c.Stream
\* returns on clientGone, Handler.ChatStream returns and the request's context is
\* cancelled.  Nothing receives from the channel afterwards.
Disconnect(t) ==
    /\ turns[t].kind = "stream"
    /\ turns[t].pc = "streaming"
    /\ turns' = [turns EXCEPT ![t] = [@ EXCEPT !.pc = "gone"]]
    /\ UNCHANGED <<auxVars, edgeVars, orchestrator, ingestVars, resp, sites, nextSite, sessions, messages>>

\* One step of the producer goroutine of turn t.
ProducerStep(t) ==
    \/ FallbackThinking(t)
    \/ FallbackContent(t)
    \/ FallbackDone(t)
    \/ RagSearching(t)
    \/ \E o \in RetrieveOutcomes : RagRetrieve(t, o)
    \/ RagContent(t)
    \/ RagGenerateErr(t)
    \/ RagSources(t)
    \/ RagDone(t)
    \/ \E e \in AgentEvents : AgentEvent(t, e)
    \/ AgentDone(t)
    \/ AgentError(t)
    \/ AgentEnd(t)

\* One step of the relay of turn t.
RelayStep(t) == RelayFrame(t) \/ RelayEnd(t)

NextStream ==
    \/ \E req \in CreateSiteRequests : CreateSite(req)
    \/ \E t \in TurnSlots, id \in SiteIds, m \in UserMessages,
          ok \in BOOLEAN : StreamBegin(t, id, m, ok)
    \/ \E t \in TurnSlots : ProducerStep(t)
    \/ \E t \in TurnSlots : RelayStep(t)
    \/ \E t \in TurnSlots : Disconnect(t)

SpecStream == InitChat /\ [][NextStream]_vars

\* The Go scheduler runs every goroutine that can take a step: a producer that is
\* not blocked on its send, and the handler's relay loop.
SpecStreamFair ==
    /\ SpecStream
    /\ \A t \in TurnSlots : WF_vars(ProducerStep(t)) /\ WF_vars(RelayStep(t))

\* ================================================================== properties
\* ------------------------------------------------------------------ widget client
WidgetSources == {"sdk.js", "widget.ts"}

InputTexts == {"", " ", "hi"}

\* String.prototype.trim on the input texts.
Trim(text) == IF text = " " THEN "" ELSE text

ChunkTypes == {"thinking", "content", "sources", "done", "error"}

\* The user edits the input box; a disabled input takes no text.
TypeMessage(text) ==
    /\ ~widget.inputDisabled
    /\ widget.value # text
    /\ widget' = [widget EXCEPT !.value = text]
    /\ UNCHANGED <<auxVars, orchestrator, ingestVars, resp, chatVars, cfg, request, served, configResp>>

\* sdk.js setStreaming(value).
setStreaming(w, value) ==
    [w EXCEPT !.isStreaming = value, !.sendDisabled = value, !.inputDisabled = value]

\* sendMessage(), called by the send button's click or the input's Enter, up to
\* its fetch.  sdk.js returns while isStreaming and disables the controls;
\* widget.ts has neither the flag nor the disabling.
sendMessage ==
    LET message == Trim(widget.value)
        started == [widget EXCEPT !.value = "",
                                  !.requests = Append(@, [message |-> message, pc |-> "fetch",
                                                          chunks |-> <<>>])]
    IN /\ ~(widget.source = "sdk.js" /\ widget.isStreaming)
       /\ message # ""
       /\ Len(widget.requests) < MaxRequests
       /\ widget' = IF widget.source = "sdk.js" THEN setStreaming(started, TRUE) ELSE started
       /\ UNCHANGED <<auxVars, orchestrator, ingestVars, resp, chatVars, cfg, request, served, configResp>>

\* The end of sendMessage() for request r: the rest of the turn after the stream
\* loop or the catch block; sdk.js calls setStreaming(false).
EndTurn(w, r) ==
    LET ended == [w EXCEPT !.requests[r].pc = "ended"]
    IN IF w.source = "sdk.js" THEN setStreaming(ended, FALSE) ELSE ended

\* fetch() resolves: with a 2xx response the reader loop starts, otherwise
\* chatStream throws and sendMessage's catch block ends the turn.
FetchResolves(r, ok) ==
    /\ r \in DOMAIN widget.requests
    /\ widget.requests[r].pc = "fetch"
    /\ widget' = IF ok THEN [widget EXCEPT !.requests[r].pc = "reading"] ELSE EndTurn(widget, r)
    /\ UNCHANGED <<auxVars, orchestrator, ingestVars, resp, chatVars, cfg, request, served, configResp>>

\* One chunk parsed from the response.  sdk.js hands it to handleChunk and keeps
\* reading whatever its type; widget.ts leaves its loop on done and on error.
ReadChunk(r, type) ==
    /\ r \in DOMAIN widget.requests
    /\ widget.requests[r].pc = "reading"
    /\ Len(widget.requests[r].chunks) < MaxChunks
    /\ LET read == [widget EXCEPT !.requests[r].chunks = Append(@, type)]
       IN widget' = IF widget.source = "widget.ts" /\ type \in {"done", "error"}
                    THEN EndTurn(read, r)
                    ELSE read
    /\ UNCHANGED <<auxVars, orchestrator, ingestVars, resp, chatVars, cfg, request, served, configResp>>

\* reader.read() reports the end of the response (failure = FALSE) or rejects
\* with a network error (failure = TRUE, caught by sendMessage).
ReadEnds(r, failure) ==
    /\ r \in DOMAIN widget.requests
    /\ widget.requests[r].pc = "reading"
    /\ widget' = EndTurn(widget, r)
    /\ UNCHANGED <<auxVars, orchestrator, ingestVars, resp, chatVars, cfg, request, served, configResp>>

InitWidget ==
    /\ orchestrator = "nil"
    /\ IngestInit
    /\ ChatInit
    /\ cfg = DefaultConfig
    /\ request = NoRequest
    /\ served = [s \in SiteIds |-> <<>>]
    /\ AuxInit
    /\ configResp = NoConfigResp
    /\ widget \in {[IdleWidget EXCEPT !.source = src] : src \in WidgetSources}

NextWidget ==
    \/ \E text \in InputTexts : TypeMessage(text)
    \/ sendMessage
    \/ \E r \in 1..MaxRequests, ok \in BOOLEAN : FetchResolves(r, ok)
    \/ \E r \in 1..MaxRequests, type \in ChunkTypes : ReadChunk(r, type)
    \/ \E r \in 1..MaxRequests, failure \in BOOLEAN : ReadEnds(r, failure)

SpecWidget == InitWidget /\ [][NextWidget]_vars

\* ------------------------------------------------------------------ widget client: SSE parser
\* Response bodies as the endpoint writes them, one character per element: "e" is
\* an event: line, "d", ":", " " spell the data prefix, {a} and {b} are JSON
\* objects, x is text that is no JSON.
Bodies ==
    { <<"e", "\n", "d", ":", " ", "{", "a", "}", "\n", "\n",
        "e", "\n", "d", ":", " ", "{", "b", "}", "\n", "\n">>,
      <<"e", "\n", "d", ":", " ", "x", "\n", "\n",
        "d", ":", " ", "{", "a", "}", "\n", "d", ":", " ", "{", "b">>,
      <<"d", ":", " ", "{", "a", "\n", "d", "\n", "\n", "d", ":", " ", "{", "b", "}", "\n">> }

RECURSIVE Split(_)
\* String.prototype.split('\n'): the pieces between the newlines, the last piece
\* being what follows the last newline.
Split(text) ==
    IF \A i \in DOMAIN text : text[i] # "\n" THEN <<text>>
    ELSE LET i == CHOOSE k \in DOMAIN text :
                     text[k] = "\n" /\ \A j \in 1..(k - 1) : text[j] # "\n"
         IN <<SubSeq(text, 1, i - 1)>> \o Split(SubSeq(text, i + 1, Len(text)))

StartsWith(text, prefix) ==
    Len(text) >= Len(prefix) /\ SubSeq(text, 1, Len(prefix)) = prefix

RECURSIVE TrimSpaces(_)
\* String.prototype.trim, which JSON.parse also applies to its input.
TrimSpaces(text) ==
    IF text = <<>> THEN text
    ELSE IF Head(text) = " " THEN TrimSpaces(Tail(text))
    ELSE IF text[Len(text)] = " " THEN TrimSpaces(SubSeq(text, 1, Len(text) - 1))
    ELSE text

\* Whether JSON.parse accepts the text.
ParsesAsJSON(text) ==
    LET t == TrimSpaces(text)
    IN Len(t) = 3 /\ t[1] = "{" /\ t[3] = "}"

\* The chunks one line yields: sdk.js takes a line starting with 'data: ' and
\* parses line.slice(6); index.ts takes one starting with 'data:' and parses
\* line.slice(5).trim().  A parse error is caught and the line skipped.
LineChunks(source, line) ==
    LET prefix == IF source = "sdk.js" THEN <<"d", ":", " ">> ELSE <<"d", ":">>
        data == SubSeq(line, Len(prefix) + 1, Len(line))
    IN IF StartsWith(line, prefix) /\ ParsesAsJSON(data)
       THEN <<TrimSpaces(data)>>
       ELSE <<>>

RECURSIVE LinesChunks(_, _)
LinesChunks(source, lines) ==
    IF lines = <<>> THEN <<>>
    ELSE LineChunks(source, Head(lines)) \o LinesChunks(source, Tail(lines))

\* Faulty variant of Remainder: what follows the last newline is thrown away.
Remainder_dropped(pieces) == <<>>

\* buffer = lines.pop() || ''
Remainder(pieces) == pieces[Len(pieces)]

\* fetch() resolved with a 2xx response whose body the reader will deliver.
StartRead(source, body) ==
    /\ parser.pc = "idle"
    /\ parser' = [IdleParser EXCEPT !.pc = "reading", !.source = source, !.body = body]
    /\ UNCHANGED <<orchestrator, ingestVars, resp, chatVars, edgeVars, listResp, updates>>

\* reader.read() resolves with the next n characters: decode, split, keep the
\* remainder, parse the complete lines.
Read(n) ==
    /\ parser.pc = "reading"
    /\ parser.pos + n <= Len(parser.body)
    /\ LET value == SubSeq(parser.body, parser.pos + 1, parser.pos + n)
           pieces == Split(parser.buffer \o value)
           lines == SubSeq(pieces, 1, Len(pieces) - 1)
       IN parser' = [parser EXCEPT
              !.pos = @ + n,
              !.buffer = Remainder(pieces),
              !.delivered = @ \o LinesChunks(parser.source, lines),
              !.cut = @ \/ value[n] # "\n"]
    /\ UNCHANGED <<orchestrator, ingestVars, resp, chatVars, edgeVars, listResp, updates>>

\* reader.read() resolves with done: the loop ends, the buffer is left unread.
ReadDone ==
    /\ parser.pc = "reading"
    /\ parser.pos = Len(parser.body)
    /\ parser' = [parser EXCEPT !.pc = "ended"]
    /\ UNCHANGED <<orchestrator, ingestVars, resp, chatVars, edgeVars, listResp, updates>>

NextParser ==
    \/ \E src \in {"sdk.js", "index.ts"}, b \in Bodies : StartRead(src, b)
    \/ \E n \in 1..MaxRead : Read(n)
    \/ ReadDone

SpecParser == InitWidget /\ [][NextParser]_vars

\* ------------------------------------------------------------------ admin: updates in flight
\* Faulty variant of CollectionRepoUpdate: the UPDATE also writes the
\* document_count that was read.
CollectionRepoUpdate_count(table, id, row) ==
    IF id \in DOMAIN table THEN [table EXCEPT ![id] = row] ELSE table

\* CollectionRepository.Update: UPDATE collections SET name, description,
\* metadata, updated_at WHERE id; document_count is not among the columns.
CollectionRepoUpdate(table, id, row) ==
    IF id \in DOMAIN table THEN [table EXCEPT ![id].name = row.name] ELSE table

\* AdminService.UpdateCollection up to collectionRepo.Get's return.
UpdateCollectionGet(w, id, name) ==
    /\ updates[w].pc = "idle"
    /\ IF id \in DOMAIN collections
       THEN /\ updates' = [updates EXCEPT ![w] =
                  [IdleUpdate EXCEPT !.pc = "collection", !.id = id, !.name = name,
                                     !.collection = <<collections[id]>>]]
            /\ UNCHANGED resp
       ELSE /\ resp' = Response("UpdateCollection", 404, TRUE)
            /\ UNCHANGED updates
    /\ UNCHANGED <<orchestrator, ingestVars, chatVars, edgeVars, listResp, parser>>

\* AdminService.UpdateCollection from the field assignments to its return: the
\* row read earlier, with the fields of the body, is written.
UpdateCollectionWrite(w) ==
    /\ updates[w].pc = "collection"
    /\ LET id == updates[w].id
           row == [updates[w].collection[1] EXCEPT !.name =
                      IF updates[w].name # "" THEN updates[w].name ELSE @]
       IN /\ collections' = CollectionRepoUpdate(collections, id, row)
          /\ resp' = IF id \in DOMAIN collections
                     THEN Response("UpdateCollection", 200, FALSE)
                     ELSE Response("UpdateCollection", 500, TRUE)
    /\ updates' = [updates EXCEPT ![w] = IdleUpdate]
    /\ UNCHANGED <<orchestrator, nextCollection, dirs, files, uploads, ragoDocs, nUploads,
                   nDeletes, chatVars, edgeVars, listResp, parser>>

\* AdminService.UpdateSite up to siteRepo.Get's return.
UpdateSiteGet(w, id, req) ==
    /\ updates[w].pc = "idle"
    /\ IF id \in DOMAIN sites
       THEN /\ updates' = [updates EXCEPT ![w] =
                  [IdleUpdate EXCEPT !.pc = "site", !.id = id, !.req = <<req>>,
                                     !.site = <<sites[id]>>]]
            /\ UNCHANGED resp
       ELSE /\ resp' = Response("UpdateSite", 404, TRUE)
            /\ UNCHANGED updates
    /\ UNCHANGED <<orchestrator, ingestVars, chatVars, edgeVars, listResp, parser>>

\* AdminService.UpdateSite from the field assignments to its return.
\* SiteRepository.Update writes every column of the row it is given.
UpdateSiteWrite(w) ==
    /\ updates[w].pc = "site"
    /\ LET id == updates[w].id
           req == updates[w].req[1]
           site == updates[w].site[1]
           row == [name |-> IF req.name # "" THEN req.name ELSE site.name,
                   domain |-> IF req.domain # "" THEN req.domain ELSE site.domain,
                   collection_ids |-> IF req.collection_ids # <<>>
                                      THEN req.collection_ids ELSE site.collection_ids,
                   widget_config |-> IF req.widget_config # <<>>
                                     THEN req.widget_config[1] ELSE site.widget_config,
                   rate_limit |-> IF req.rate_limit > 0 THEN req.rate_limit
                                  ELSE site.rate_limit]
       IN IF id \in DOMAIN sites
          THEN /\ sites' = [sites EXCEPT ![id] = row]
               /\ resp' = Response("UpdateSite", 200, FALSE)
               /\ served' = [served EXCEPT ![id] = <<>>]
          ELSE /\ resp' = Response("UpdateSite", 500, TRUE)
               /\ UNCHANGED <<sites, served>>
    /\ updates' = [updates EXCEPT ![w] = IdleUpdate]
    /\ UNCHANGED <<orchestrator, ingestVars, nextSite, sessions, messages, turns,
                   cfg, request, configResp, widget, listResp, parser>>

NextCount ==
    \/ CreateCollection
    \/ \E id \in CollIds : DeleteCollection(id)
    \/ \E u \in UploadSlots, c \in CollIds, r \in UploadRequests :
          UploadBegin(u, c, r.filename, r.metadata)
    \/ \E u \in UploadSlots : UploadCommit(u)
    \/ \E w \in UpdateSlots, id \in CollIds, name \in {"Renamed", ""} :
          UpdateCollectionGet(w, id, name)
    \/ \E w \in UpdateSlots : UpdateCollectionWrite(w)

SpecCount == InitIngest /\ [][NextCount]_vars

NextUpdates ==
    \/ \E req \in CreateSiteRequests : CreateSite(req)
    \/ \E id \in SiteIds, fk \in BOOLEAN : DeleteSite(id, fk)
    \/ \E w \in UpdateSlots, id \in SiteIds, req \in UpdateSiteRequests :
          UpdateSiteGet(w, id, req)
    \/ \E w \in UpdateSlots : UpdateSiteWrite(w)

SpecUpdates == InitSites /\ [][NextUpdates]_vars

\* ------------------------------------------------------------------ widget: sessions across sites
\* Sites as CreateSite leaves them, one more than the admin scenarios create, so
\* that a session of one site can be presented to another.
ChatSiteIds == 1..(MaxSites + 1)

InitSessions ==
    /\ orchestrator \in {"nil", "rag"}
    /\ IngestInit
    /\ EdgeInit
    /\ sites = [s \in ChatSiteIds |->
                   [name |-> "Site", domain |-> "example.com", collection_ids |-> <<1>>,
                    widget_config |-> DefaultWidgetConfig, rate_limit |-> 100]]
    /\ nextSite = MaxSites + 1
    /\ sessions = [s \in {} |-> 0]
    /\ messages = <<>>
    /\ turns = [t \in TurnSlots |-> IdleTurn]

NextSessions ==
    \/ \E t \in TurnSlots, id \in ChatSiteIds, rs \in 0..MaxTurns,
          m \in UserMessages, ok \in BOOLEAN : ChatBegin(t, id, rs, m, ok)
    \/ \E t \in TurnSlots, o \in {"ok"} \cup ChatErrors : ChatReturn(t, o)
    \/ \E t \in TurnSlots, i \in BOOLEAN, u \in BOOLEAN : ChatFinish(t, i, u)

SpecSessions == InitSessions /\ [][NextSessions]_vars

\* ------------------------------------------------------------------ C1
\* C1 (as stated): every collection's document_count equals the number of
\* successful uploads to it minus the number of successful deletions of its
\* documents (and so is 0 at creation).
C1_CountIsUploadsMinusDeletes ==
    \A c \in DOMAIN collections :
        collections[c].document_count = nUploads[c] - nDeletes[c]

\* ------------------------------------------------------------------ C2
Indices(t, role) ==
    {i \in 1..Len(messages) : messages[i].turn = t /\ messages[i].role = role}

\* C2 (as stated): every finished chat turn, streaming or not, whose store writes
\* were accepted has exactly one user message and exactly one assistant message,
\* the user message first.
C2_OneUserOneAssistantPerTurn ==
    \A t \in TurnSlots :
        (turns[t].kind \in {"chat", "stream"} /\ turns[t].pc = "done" /\ ~turns[t].storeErr)
            => /\ Cardinality(Indices(t, "user")) = 1
               /\ Cardinality(Indices(t, "assistant")) = 1
               /\ \A i \in Indices(t, "user"), j \in Indices(t, "assistant") : i < j

\* ------------------------------------------------------------------ C3
Terminal == {"done", "error"}

Count(chunks, types) == Cardinality({i \in 1..Len(chunks) : chunks[i].type \in types})

ProducerFinished(t) ==
    turns[t].kind = "stream" /\ turns[t].producer \in {"closed", "notStarted"}

AcceptedExtensions ==
    { <<"p", "d", "f">>, <<"m", "d">>, <<"m", "a", "r", "k", "d", "o", "w", "n">>,
      <<"t", "x", "t">>, <<"h", "t", "m", "l">>, <<"h", "t", "m">>,
      <<"a", "d", "o", "c">>, <<"a", "s", "c", "i", "i", "d", "o", "c">> }

\* The filename has no extension, or one that is outside the accepted set.
OutsideAccepted(filename) ==
    \/ Ext(filename) = <<>>
    \/ ToLower(SubSeq(Ext(filename), 2, Len(Ext(filename)))) \notin AcceptedExtensions

\* C4 (as stated): an upload to an existing collection whose extension is outside
\* the accepted set is answered 400, writes no directory and no file, and leaves
\* the collection's document_count unchanged.
C4_UnsupportedUploadRejected ==
    [][\A u \in UploadSlots, c \in DOMAIN collections, r \in UploadRequests :
          (OutsideAccepted(r.filename) /\ UploadBegin(u, c, r.filename, r.metadata))
              => /\ resp' = Response("UploadDocument", 400, FALSE)
                 /\ UNCHANGED <<dirs, files, collections>>]_vars

\* ------------------------------------------------------------------ C5
\* C5 (as stated): the body of every upload response carries status pending and
\* the id generated for the upload.
C5_ResponseIsPendingWithOwnId ==
    \A u \in UploadSlots :
        uploads[u].pc = "responded"
            => /\ uploads[u].body.status = DocumentStatusPending
               /\ uploads[u].body.id = DocID(u)

\* ------------------------------------------------------------------ C6
\* C6 (as stated): once the ingest call of an upload has returned and its outcome
\* has been handled, the collection's document listing (no document of the
\* collection having been deleted) holds the document with that outcome: ready
\* with the chunk count, or failed with the error text.
C6_OutcomeRecordedOnStoreRow ==
    \A u \in UploadSlots :
        (orchestrator # "nil" /\ uploads[u].task = "done" /\ nDeletes[uploads[u].coll] = 0)
            => LET listing == ListDocumentsByCollection(ragoDocs, uploads[u].coll)
               IN \E i \in 1..Len(listing) :
                     /\ listing[i].Filename = uploads[u].filename
                     /\ listing[i].Status = uploads[u].document.Status
                     /\ \/ /\ listing[i].Status = DocumentStatusReady
                           /\ listing[i].ChunkCount = ChunkCountOf(uploads[u].filename)
                        \/ /\ listing[i].Status = DocumentStatusFailed
                           /\ listing[i].Error = IngestErrorText

\* ------------------------------------------------------------------ C7
ChatBegan(t) ==
    turns[t].pc = "idle" /\ turns'[t].pc # "idle" /\ turns'[t].kind = "chat"

\* C7: a Chat turn without a session id creates exactly one Session row, bound to
\* the requested site, and uses its id; a Chat turn with a session id creates no
\* row and uses that id; no other step changes the set of sessions; the response
\* of a turn carries the id the turn used.
C7_SessionCreatedOnceOrReused ==
    [][/\ \A t \in TurnSlots :
             ChatBegan(t) =>
                 IF turns'[t].reqSession = 0
                 THEN /\ Cardinality(DOMAIN sessions') = Cardinality(DOMAIN sessions) + 1
                      /\ turns'[t].sessionID \in (DOMAIN sessions') \ (DOMAIN sessions)
                      /\ sessions'[turns'[t].sessionID].site_id = turns'[t].site
                 ELSE /\ DOMAIN sessions' = DOMAIN sessions
                      /\ turns'[t].sessionID = turns'[t].reqSession
       /\ (\A t \in TurnSlots : ~ChatBegan(t)) => DOMAIN sessions' = DOMAIN sessions
       /\ \A t \in TurnSlots :
             (turns'[t].kind = "chat" /\ turns'[t].status = 200)
                 => turns'[t].respSession = turns'[t].sessionID]_vars

\* C7 witness: a first turn created session 1, a follow-up turn named it, both
\* were answered with that id, and there is still one session.
C7_Witness ==
    /\ Cardinality(DOMAIN sessions) = 1
    /\ \E t, v \in TurnSlots :
          /\ turns[t].kind = "chat" /\ turns[t].status = 200
          /\ turns[t].reqSession = 0 /\ turns[t].created = 1 /\ turns[t].respSession = 1
          /\ turns[v].kind = "chat" /\ turns[v].status = 200
          /\ turns[v].reqSession = 1 /\ turns[v].created = 0 /\ turns[v].respSession = 1

\* ------------------------------------------------------------------ C8
ExternalCallFailed(t) ==
    turns[t].kind = "chat" /\ turns[t].outcome \notin {"", "ok"}

\* C8: a Chat turn whose external call failed carries an answer that contains
\* the error text; the turn ends with an error only when a store write failed,
\* and otherwise with a 200 response holding the turn's session id and that
\* answer; the turn's assistant message is written at most once, exactly once
\* when the turn is answered 200, and holds that same answer.
C8_ExternalFailureBecomesAnswer ==
    \A t \in TurnSlots :
        ExternalCallFailed(t)
            => /\ \E i \in 1..Len(turns[t].answer) : turns[t].answer[i] = turns[t].outcome
               /\ turns[t].pc = "done" => (turns[t].status = 200 \/ turns[t].storeErr)
               /\ turns[t].status = 200
                     => /\ turns[t].respSession = turns[t].sessionID
                        /\ turns[t].respAnswer = turns[t].answer
                        /\ Cardinality(Indices(t, "assistant")) = 1
               /\ Cardinality(Indices(t, "assistant")) <= 1
               /\ \A i \in Indices(t, "assistant") :
                     /\ messages[i].content = turns[t].answer
                     /\ messages[i].session_id = turns[t].sessionID

\* C8 witness: a turn whose external call failed was answered 200.
C8_Witness ==
    \E t \in TurnSlots :
        /\ ExternalCallFailed(t)
        /\ turns[t].status = 200
        /\ Indices(t, "assistant") # {}

\* ------------------------------------------------------------------ C9
UserWriteAccepted(t) ==
    turns[t].kind = "chat" /\ (turns[t].pc \in {"calling", "answered"} \/ turns[t].answer # NoAnswer)

\* C9: while the external call of a Chat turn runs, and ever after, the turn's
\* user message is stored, also when the call or the assistant write fails; every
\* assistant message comes after the user message of its turn.
C9_UserMessageBeforeCallAndAssistant ==
    /\ \A t \in TurnSlots : UserWriteAccepted(t) => Indices(t, "user") # {}
    /\ \A i \in 1..Len(messages) :
          messages[i].role = "assistant"
              => \E j \in 1..(i - 1) :
                    messages[j].turn = messages[i].turn /\ messages[j].role = "user"

\* C9 witness: a turn whose external call failed and whose assistant write
\* failed too ended with its user message stored and no assistant message.
C9_Witness ==
    \E t \in TurnSlots :
        /\ ExternalCallFailed(t)
        /\ turns[t].pc = "done" /\ turns[t].storeErr
        /\ Indices(t, "user") # {}
        /\ Indices(t, "assistant") = {}

\* ------------------------------------------------------------------ C10
\* C10 (as stated): a request that names a missing collection, site or document
\* is answered with a 4xx status.
C10_MissingIsAnswered4xx ==
    resp.missing => resp.status \in 400..499

\* ------------------------------------------------------------------ C11
AdminRequest ==
    /\ request.method # "OPTIONS"
    /\ Registered(request.method, request.path)
    /\ GroupOf(request.method, request.path) = "admin"

KeyPresented ==
    \/ request.xApiKey = cfg.apiKey
    \/ request.authorization = BearerPrefix \o cfg.apiKey

HandlerRan == \E i \in 1..Len(request.ran) : request.ran[i] = "handler"

\* C11 (as stated): with a key configured, an admin request reaches its handler
\* exactly when X-API-Key or the Authorization Bearer token is the configured
\* key, whatever the other header holds, and is answered 401 without its handler
\* otherwise; with no key configured every admin request reaches its handler.
C11_AdminHandlerIffKeyPresented ==
    (AdminRequest /\ request.done)
        => IF cfg.apiKey = <<>>
           THEN HandlerRan
           ELSE /\ HandlerRan <=> KeyPresented
                /\ ~HandlerRan => request.status = 401

\* ------------------------------------------------------------------ C12
AuthRan == \E i \in 1..Len(request.ran) : request.ran[i] = "Auth"

\* C12: an OPTIONS request, to any path and from any origin, is answered 204 by
\* the CORS middleware; neither the API-key check nor a handler runs for it.
C12_PreflightAnswered204 ==
    request.method = "OPTIONS"
        => /\ ~AuthRan /\ ~HandlerRan
           /\ request.done => (request.status = 204 /\ request.ran = <<"Recovery", "CORS">>)

\* C12 witness: a preflight for an admin route from an origin outside the
\* allow-list, without a key although one is configured, was answered 204.
C12_Witness ==
    /\ request.method = "OPTIONS" /\ request.done /\ request.status = 204
    /\ request.path = "/api/admin/collections/:id"
    /\ ~OriginAllowed(cfg.allowOrigins, request.origin)
    /\ cfg.apiKey # <<>> /\ request.xApiKey = <<>> /\ request.authorization = <<>>

Types(chunks) == [i \in 1..Len(chunks) |-> chunks[i].type]

IsPrefix(a, b) == Len(a) <= Len(b) /\ SubSeq(b, 1, Len(a)) = a

FallbackTypes == <<"thinking", "content", "done">>

\* C14: without an orchestrator, a Chat turn ends with an error only when a store
\* write failed, and otherwise with the placeholder answer, the turn's session id
\* and the turn's user and assistant messages stored; a ChatStream turn sends
\* thinking, content, done in that order and closes, and the relay writes these
\* three frames and ends.
C14_PlaceholderModeCompletes ==
    orchestrator = "nil"
        => \A t \in TurnSlots :
              /\ (turns[t].kind = "chat" /\ turns[t].pc = "done")
                    => (turns[t].status = 200 \/ turns[t].storeErr)
              /\ (turns[t].kind = "chat" /\ turns[t].status = 200)
                    => /\ turns[t].respAnswer = PlaceholderAnswer(turns[t].message)
                       /\ turns[t].respSession = turns[t].sessionID
                       /\ turns[t].sessionID # 0
                       /\ Cardinality(Indices(t, "user")) = 1
                       /\ Cardinality(Indices(t, "assistant")) = 1
                       /\ \A i \in Indices(t, "assistant") :
                             messages[i].content = turns[t].respAnswer
              /\ turns[t].kind = "stream"
                    => /\ IsPrefix(Types(Produced(t)), FallbackTypes)
                       /\ turns[t].producer = "closed" => Types(Produced(t)) = FallbackTypes
                       /\ turns[t].pc = "done"
                             => /\ turns[t].producer = "closed"
                                /\ turns[t].status = 200
                                /\ Types(turns[t].frames) = FallbackTypes

\* C14 witness: without an orchestrator, one Chat turn was answered 200 and one
\* ChatStream turn was relayed to its end.
C14_Witness ==
    /\ orchestrator = "nil"
    /\ \E t, v \in TurnSlots :
          /\ turns[t].kind = "chat" /\ turns[t].status = 200
          /\ turns[v].kind = "stream" /\ turns[v].pc = "done"

\* ------------------------------------------------------------------ C15
InFlight == {r \in DOMAIN widget.requests : widget.requests[r].pc # "ended"}

\* C15: the widget has at most one chat-stream request in flight; while one is in
\* flight the input box and the send button are disabled, and with none in flight
\* both are enabled.
C15_OneTurnInFlight ==
    /\ Cardinality(InFlight) <= 1
    /\ InFlight # {} => (widget.inputDisabled /\ widget.sendDisabled)
    /\ InFlight = {} => (~widget.inputDisabled /\ ~widget.sendDisabled)

\* ------------------------------------------------------------------ C16
StatusRank(status) ==
    CASE status \in {"", DocumentStatusPending} -> 0
      [] status = DocumentStatusProcessing -> 1
      [] OTHER -> 2

Forward(before, after) ==
    /\ StatusRank(before) <= StatusRank(after)
    /\ before \in {DocumentStatusReady, DocumentStatusFailed} => after = before

\* C16: in every step the status of a document, on its store row as the listing
\* reports it and on the Document of its upload, stays or moves forward along
\* pending, processing, ready or failed, and a ready or failed status stays; a row
\* reported ready belongs to an upload whose IngestFile call returned a response.
C16_StatusOnlyMovesForward ==
    [][/\ \A i \in DOMAIN ragoDocs, j \in DOMAIN ragoDocs' :
             ragoDocs[i].id = ragoDocs'[j].id
                => Forward(ragoDocToAskDoc(ragoDocs[i]).Status,
                           ragoDocToAskDoc(ragoDocs'[j]).Status)
       /\ \A u \in UploadSlots :
             Forward(uploads[u].document.Status, uploads'[u].document.Status)
       /\ \A j \in DOMAIN ragoDocs' :
             ragoDocToAskDoc(ragoDocs'[j]).Status = DocumentStatusReady
                => \E u \in UploadSlots :
                      /\ ragoDocs'[j].id = RagoID(u)
                      /\ uploads'[u].task \in {"ingested", "done"}]_vars

\* ------------------------------------------------------------------ C17
Phase(type) ==
    CASE type = "thinking" -> 0
      [] type = "content" -> 1
      [] type = "sources" -> 2
      [] OTHER -> 3

\* C17: the chunks a producer has put on its channel read thinking*, content*,
\* at most one sources, then one done or error: no chunk is followed by one of an
\* earlier kind, sources and the terminal chunk occur once, and a closed channel
\* has carried its terminal chunk last.
C17_ChunksFollowPattern ==
    \A t \in TurnSlots :
        turns[t].kind = "stream"
            => LET types == Types(turns[t].sent)
               IN /\ \A i, j \in DOMAIN types :
                        i < j => /\ Phase(types[i]) <= Phase(types[j])
                                 /\ Phase(types[i]) >= 2 => Phase(types[i]) < Phase(types[j])
                  /\ turns[t].producer = "closed"
                        => (types # <<>> /\ Phase(types[Len(types)]) = 3)

\* ------------------------------------------------------------------ C18
\* C18: the frames written for a turn are the chunks received from its channel,
\* one frame per chunk in the order sent, each frame's event name and JSON type
\* being the chunk's type; frames written and chunks still buffered make up what
\* the producer sent; the response is ended only with the channel closed and
\* empty, all chunks written.
C18_RelayWritesEachChunkOnce ==
    \A t \in TurnSlots :
        (turns[t].kind = "stream" /\ turns[t].producer # "notStarted")
            => /\ Produced(t) = turns[t].sent
               /\ \A i \in DOMAIN turns[t].frames :
                     /\ turns[t].frames[i].json
                     /\ turns[t].frames[i].event = turns[t].sent[i].type
                     /\ turns[t].frames[i].type = turns[t].sent[i].type
                     /\ turns[t].frames[i].content = turns[t].sent[i].content
               /\ turns[t].pc = "done"
                     => /\ turns[t].producer = "closed"
                        /\ turns[t].ch = <<>>
                        /\ Len(turns[t].frames) = Len(turns[t].sent)

\* C18 witness: a response ended after relaying two or more chunks.
C18_Witness ==
    \E t \in TurnSlots :
        /\ turns[t].kind = "stream"
        /\ turns[t].pc = "done"
        /\ Len(turns[t].frames) >= 2
        /\ turns[t].producer = "closed"

\* ------------------------------------------------------------------ C19
\* C19: once the client of a stream is gone, its producer eventually closes the
\* channel.
C19_ProducerStopsAfterDisconnect ==
    \A t \in TurnSlots :
        (turns[t].pc = "gone") ~> (turns[t].producer = "closed")

\* ------------------------------------------------------------------ C20
\* C20: the context of a spawned ingestion task is never cancelled, whatever
\* happens to the upload request, and every spawned task runs to its end, where it
\* has set the outcome on its Document.
C20_IngestionOutlivesRequest ==
    /\ [](\A u \in UploadSlots : uploads[u].task # "none" => ~TaskCancelled(u))
    /\ \A u \in UploadSlots :
          (uploads[u].task = "spawned")
             ~> (/\ uploads[u].task = "done"
                 /\ uploads[u].document.Status \in {DocumentStatusReady, DocumentStatusFailed})

\* C20 witness: the request was cancelled while the task had not yet called
\* IngestFile, and the task has ingested the file and recorded ready since.
C20_Witness ==
    \E u \in UploadSlots :
        /\ uploads[u].cancelledAt = "spawned"
        /\ uploads[u].pc \in {"returned", "encoding"}
        /\ uploads[u].task = "done"
        /\ uploads[u].document.Status = DocumentStatusReady
        /\ \E i \in DOMAIN ragoDocs :
              /\ ragoDocs[i].id = RagoID(u)
              /\ ragoDocToAskDoc(ragoDocs[i]).Status = DocumentStatusReady

\* ------------------------------------------------------------------ C21
\* C21: a call of IngestService.DeleteDocument whose external deletion succeeds
\* removes the row, removes at most the stored file of that id, and lowers the
\* collection's document_count by exactly one whether or not a file was found; a
\* call whose external deletion fails leaves rows, files and counts as they were.
C21_DeleteDecrementsIffStoreDeleted ==
    [][\A id \in DocumentIds, c \in CollIds, ok \in BOOLEAN :
          IngestDeleteDocument(id, c, ok)
             => IF resp'.status = 200
                THEN /\ ok /\ orchestrator # "nil"
                     /\ ~HasDoc(ragoDocs', id)
                     /\ files' \subseteq files
                     /\ \A f \in files \ files' : f.coll = c /\ f.id = id
                     /\ c \in DOMAIN collections
                           => collections'[c].document_count = collections[c].document_count - 1
                     /\ \A d \in (DOMAIN collections) \ {c} : collections'[d] = collections[d]
                ELSE /\ ~ok \/ orchestrator = "nil"
                     /\ ragoDocs' = ragoDocs /\ files' = files /\ collections' = collections]_vars

\* C21 witness: a deletion succeeded in the store, found no stored file under the
\* id it was given, and the count went from one back to zero.
C21_Witness ==
    /\ resp.op = "IngestService.DeleteDocument" /\ resp.status = 200
    /\ ragoDocs = <<>>
    /\ files # {}
    /\ \E c \in DOMAIN collections :
          nUploads[c] = 1 /\ nDeletes[c] = 1 /\ collections[c].document_count = 0

\* ------------------------------------------------------------------ C22
\* The store rows tagged with collection id c, in store order.
Tagged(c) ==
    SelectSeq(ragoDocs, LAMBDA row : row.meta[MetadataKeyCollectionID] = c)

\* C22: every listing answers 200 with the total of the documents tagged with the
\* requested collection id and with exactly the documents at positions
\* (page - 1) * size + 1 .. page * size of that list, in order (none past the
\* end), where a page below 1 counts as 1 and a size outside 1..100 as 20.
C22_PagesPartitionTheList ==
    listResp # NoListing
        => LET full == Tagged(listResp.collectionID)
               page == IF listResp.reqPage < 1 THEN 1 ELSE listResp.reqPage
               size == IF listResp.reqPageSize \in 1..100 THEN listResp.reqPageSize ELSE 20
               first == (page - 1) * size + 1
               last == IF page * size < Len(full) THEN page * size ELSE Len(full)
           IN /\ listResp.status = 200
              /\ listResp.total = Len(full)
              /\ listResp.documents = [i \in 1..(IF last >= first THEN last - first + 1 ELSE 0) |->
                                         full[first + i - 1].id]

\* ------------------------------------------------------------------ C23
\* The lines of a text that are terminated by a newline.
CompleteLines(text) == SubSeq(Split(text), 1, Len(Split(text)) - 1)

RECURSIVE DataChunks(_)
\* The JSON payloads of the data lines among the lines, in order.
DataChunks(lines) ==
    IF lines = <<>> THEN <<>>
    ELSE LET line == Head(lines)
             data == TrimSpaces(SubSeq(line, 3, Len(line)))
         IN (IF StartsWith(line, <<"d", ":">>) /\ Len(data) = 3
                /\ data[1] = "{" /\ data[3] = "}"
             THEN <<data>> ELSE <<>>) \o DataChunks(Tail(lines))

\* C23: whatever the reads were, the chunks delivered so far are the JSON payloads
\* of the complete data lines among the characters read, in order and once each;
\* other lines and data lines without valid JSON contribute nothing.
C23_ChunksIndependentOfSplits ==
    parser.pc # "idle"
        => parser.delivered = DataChunks(CompleteLines(SubSeq(parser.body, 1, parser.pos)))

\* C23 witness: a body with an invalid data line before a valid one and an
\* unterminated one was read to its end with a read ending inside a line, and
\* the valid line's chunk was delivered.
C23_Witness ==
    /\ parser.pc = "ended"
    /\ parser.cut
    /\ parser.delivered = << <<"{", "a", "}">> >>
    /\ \E i \in DOMAIN parser.body : parser.body[i] = "x"

C25_SuccessIncrementsExistingCollection ==
    [][\A u \in UploadSlots :
          (uploads[u].pc = "saved" /\ uploads'[u].pc = "returned")
              => /\ uploads[u].coll \in DOMAIN collections
                 /\ uploads[u].coll \in DOMAIN collections'
                 /\ collections'[uploads[u].coll].document_count
                       = collections[uploads[u].coll].document_count + 1]_vars

\* ------------------------------------------------------------------ C26
\* C26: the row an ingestion adds to the store carries the collection id, the
\* file name and the file type of its upload and the status processing,
\* whatever metadata the caller sent with the upload.
C26_StoreGetsTheUploadsOwnFields ==
    [][\A u \in UploadSlots :
          (uploads[u].task = "spawned" /\ uploads'[u].task = "ingested")
              => LET meta == ragoDocs'[Len(ragoDocs')].meta
                 IN /\ meta[MetadataKeyCollectionID] = uploads[u].coll
                    /\ meta[MetadataKeyFilename] = uploads[u].filename
                    /\ meta[MetadataKeyFileType] = DetectFileType(uploads[u].filename)
                    /\ meta[MetadataKeyStatus] = DocumentStatusProcessing]_vars

\* ------------------------------------------------------------------ C27
\* C27: the id in an upload's response is the id of the row the store holds for
\* that upload (the id listed, polled, fetched and deleted by) and the id its
\* stored file is named by.
C27_ReturnedIdIsTheDocumentsId ==
    \A u \in UploadSlots :
        uploads[u].body.id # <<>>
            => /\ \A i \in 1..Len(ragoDocs) :
                     ragoDocs[i].id = RagoID(u) => ragoDocs[i].id = uploads[u].body.id
               /\ \A f \in files : f.id = DocID(u) => f.id = uploads[u].body.id

\* ------------------------------------------------------------------ C28
\* C28: every stored message belongs to an existing session, and the chat turn
\* that stored it ran on the site that session is bound to.
C28_MessagesStayOnTheSessionsSite ==
    \A i \in 1..Len(messages) :
        /\ messages[i].session_id \in DOMAIN sessions
        /\ sessions[messages[i].session_id].site_id = turns[messages[i].turn].site

\* ------------------------------------------------------------------ C29
\* C29: every frame the streaming endpoint has written carries a JSON payload
\* whose type is one of thinking, content, sources, done, error and is the
\* frame's event name.
C29_EveryFrameIsATypedJSONChunk ==
    \A t \in TurnSlots :
        \A i \in 1..Len(turns[t].frames) :
            LET frame == turns[t].frames[i]
            IN /\ frame.json
               /\ frame.type \in {"thinking", "content", "sources", "done", "error"}
               /\ frame.type = frame.event

\* ------------------------------------------------------------------ C30
\* C30: an UpdateSite whose body leaves a field unset leaves that field of the
\* stored row as it was just before the update's write.
C30_UnsetFieldsKeepTheStoredValue ==
    [][\A w \in UpdateSlots :
          (updates[w].pc = "site" /\ updates'[w].pc = "idle"
           /\ updates[w].id \in DOMAIN sites)
              => LET id == updates[w].id
                     req == updates[w].req[1]
                 IN /\ req.name = "" => sites'[id].name = sites[id].name
                    /\ req.domain = "" => sites'[id].domain = sites[id].domain
                    /\ req.collection_ids = <<>>
                          => sites'[id].collection_ids = sites[id].collection_ids
                    /\ req.widget_config = <<>>
                          => sites'[id].widget_config = sites[id].widget_config
                    /\ req.rate_limit = 0
                          => sites'[id].rate_limit = sites[id].rate_limit]_vars

====
